---- MODULE Spec2Model ----
(***************************************************************************)
(* Long-form generation controller of bark_infinity/api.py:                *)
(* generate_audio_long driving generate_audio_barki once per text segment, *)
(* with the cooperative cancellation flag gradio_try_to_cancel set by an   *)
(* external caller.                                                        *)
(*                                                                         *)
(* A Python value that may be None is an option: <<>> is None, <<v>> is v. *)
(* A conditioning bundle (history prompt dict) is a record                 *)
(*   [src, seg, id]: src = "none" (Python None), "file" (np.load of the    *)
(*   speaker file) or "gen" (full_generation of segment seg); id is the    *)
(*   identity of the Python object, fresh for each np.load, each           *)
(*   copy.deepcopy and each generated dict.                                *)
(***************************************************************************)
EXTENDS Integers, Sequences, FiniteSets, TLC

\* ---------------------------------------------------------------- bounds
MaxSegments == 4
MaxInterval == 3
MaxEveryX == 2
MaxWrites == 3
MaxAllocs == 3
MaxDirs == 3
MaxLen == 3

\* ------------------------------------------------------- values and helpers
None == <<>>
Some(v) == <<v>>
IsNone(o) == o = <<>>
Val(o) == o[1]

\* the sum of a sequence of integers
RECURSIVE SumSeq(_)
SumSeq(seq) == IF seq = << >> THEN 0 ELSE Head(seq) + SumSeq(Tail(seq))

\* a value of the stable_mode_interval keyword: the integer whole, or the
\* float whole + 1/2
Number(whole, half) == [whole |-> whole, half |-> half]
Whole(n) == Number(n, FALSE)
\* a number as the counter holds it: the integer itself, or the Number of a float
CounterValue(number) == IF number.half THEN number ELSE number.whole

NoneBundle == [src |-> "none", seg |-> 0, id |-> 0]
IsNoneBundle(b) == b.src = "none"
Content(b) == [src |-> b.src, seg |-> b.seg]
FileContent == [src |-> "file", seg |-> 0]
GenContent(n) == [src |-> "gen", seg |-> n]

\* copy.deepcopy(b): same contents, a new object (None stays None)
DeepCopy_SameObject(b, newid) == b
DeepCopy(b, newid) == IF IsNoneBundle(b) THEN b ELSE [b EXCEPT !.id = newid]

Booleans == {TRUE, FALSE}

\* the keyword arguments of generate_audio_long that the controller reads
ConfigSpace ==
  [ stable_mode_interval : {None} \cup {Some(v) : v \in (-1)..MaxInterval},
    stable_mode_interval_half : Booleans,
    history_prompt : {"None", "valid", "missing", "invalid", "raising"},
    nseg : 0..MaxSegments,
    seperate_prompts : Booleans,
    seperate_prompts_flipper : Booleans,
    semantic_history_only : Booleans,
    absolute_semantic_history_only : Booleans,
    absolute_semantic_history_only_every_x : {None} \cup {Some(v) : v \in 0..MaxEveryX},
    hoarder_mode : Booleans,
    dry_run : Booleans,
    dry_run_given : Booleans,
    text_splits_only : Booleans,
    add_silence_between_segments : Booleans ]
\* dry_run_given: the key dry_run is in kwargs, with the value dry_run; a run
\* without the key reads it as False at line 835 and as None at line 1104
DryRunKeyConsistent(c) == c.dry_run => c.dry_run_given

\* runs that exercise the continuity policy and the overrides
PolicyConfigs ==
  { c \in ConfigSpace : /\ ~c.hoarder_mode /\ ~c.dry_run /\ ~c.text_splits_only
                        /\ c.history_prompt # "raising"
                        /\ ~c.add_silence_between_segments
                        /\ ~c.dry_run_given
                        /\ ~c.stable_mode_interval_half }

\* runs that exercise artifact writing, dry runs and cancellation
ArtifactConfigs ==
  { c \in ConfigSpace : /\ c.stable_mode_interval \in {None, Some(0), Some(2)}
                        /\ ~c.stable_mode_interval_half
                        /\ c.history_prompt # "raising"
                        /\ c.dry_run_given = c.dry_run
                        /\ ~c.seperate_prompts /\ ~c.seperate_prompts_flipper
                        /\ ~c.semantic_history_only
                        /\ ~c.absolute_semantic_history_only
                        /\ c.absolute_semantic_history_only_every_x = None }

\* runs whose stable_mode_interval is an integer of -1..2 or a float one half
\* above it (-0.5, 0.5, 1.5, 2.5), with every speaker name, the one on whose
\* file validation raises included
IntervalConfigs ==
  { c \in ConfigSpace :
                        /\ c.stable_mode_interval \in {Some(-1), Some(0), Some(1), Some(2)}
                        /\ DryRunKeyConsistent(c)
                        /\ ~c.seperate_prompts /\ ~c.seperate_prompts_flipper
                        /\ ~c.semantic_history_only
                        /\ ~c.absolute_semantic_history_only
                        /\ c.absolute_semantic_history_only_every_x = None }

VARIABLES
  cfg,                              \* kwargs of the run
  gradio_try_to_cancel,             \* module global, api.py:43
  done_cancelling,                  \* module global, api.py:44
  pc,                               \* position of the run
  stable_mode_interval,             \* local of generate_audio_long
  stable_mode_interval_counter,     \* local, option
  dry_run,                          \* local of generate_audio_long, option
  audio_segments,                   \* number of segments returned by the segmenter
  history_prompt_for_next_segment,  \* rolling conditioning
  base_history,                     \* base conditioning
  kw,                               \* kwargs entries written by generate_audio_long
  history_prompt_flipper,           \* local
  i,                                \* loop index (0-based)
  full_generation_segments,         \* accumulator of bundles
  audio_arr_segments,               \* accumulator of audio buffers
  bk,                               \* locals of the running generate_audio_barki call
  disk,                             \* files written by this run
  result,                           \* return of generate_audio_long
  final_artifact,                   \* option: what the final write_one_segment was given
  nextId,                           \* next fresh object identity
  barki_calls,                      \* history: kwargs of each generate_audio_barki call
  stage_calls,                      \* history: each model stage call
  roll_log,                         \* history: rolling state after each completed segment
  segmenter_calls,                  \* history: number of segmenter invocations
  cancel_point,                     \* history: where the run was when the caller set the flag
  files,                            \* file system: the paths that hold a file
  overwritten,                      \* history: writes that hit a path holding a file
  nwrites,                          \* number of save operations performed
  alloc_log,                        \* history: each generate_unique_filepath call
  fn_in,                            \* arguments of a helper function called on its own
  fn_out                            \* option: the value that call returned

vars == << cfg, gradio_try_to_cancel, done_cancelling, pc, stable_mode_interval,
           stable_mode_interval_counter, dry_run, audio_segments,
           history_prompt_for_next_segment, base_history, kw, history_prompt_flipper,
           i, full_generation_segments, audio_arr_segments, bk, disk, result,
           final_artifact, nextId,
           barki_calls, stage_calls, roll_log, segmenter_calls, cancel_point,
           files, overwritten, nwrites, alloc_log, fn_in, fn_out >>

NoResult == [status |-> "running", value |-> "none", cause |-> "none"]
\* return None, None, None
ReturnNone3(cause) == [status |-> "returned", value |-> "None3", cause |-> cause]
\* return full_generation_segments, audio_arr_segments, final_filename_will_be
ReturnArtifacts == [status |-> "returned", value |-> "artifacts", cause |-> "done"]
Raised(cause) == [status |-> "raised", value |-> "none", cause |-> cause]

\* history_prompt is the local variable of generate_audio_barki, kw_history_prompt
\* its kwargs entry; polls and last_poll_saw record the polls of the flag since the
\* call started or the last stage returned
NoBarki == [history_prompt |-> NoneBundle, kw_history_prompt |-> NoneBundle,
            segment_number |-> 0, previous_segment_type |-> "",
            full_generation |-> NoneBundle, returned |-> "none",
            polls |-> 0, last_poll_saw |-> FALSE, stages_at_return |-> 0]

InitWith(configs) ==
  /\ cfg \in configs
  /\ gradio_try_to_cancel = FALSE
  /\ done_cancelling = FALSE
  /\ pc = "start"
  /\ stable_mode_interval = Whole(0)
  /\ stable_mode_interval_counter = None
  /\ dry_run = Some(FALSE)
  /\ audio_segments = 0
  /\ history_prompt_for_next_segment = NoneBundle
  /\ base_history = NoneBundle
  /\ kw = [history_prompt |-> NoneBundle, previous_segment_type |-> "",
           history_prompt_string |-> FALSE, segment_number |-> 0]
  /\ history_prompt_flipper = FALSE
  /\ i = 0
  /\ full_generation_segments = << >>
  /\ audio_arr_segments = << >>
  /\ bk = NoBarki
  /\ disk = {}
  /\ result = NoResult
  /\ final_artifact = None
  /\ nextId = 1
  /\ barki_calls = << >>
  /\ stage_calls = << >>
  /\ roll_log = << >>
  /\ segmenter_calls = 0
  /\ cancel_point = "none"

\* the file system of the save operations starts empty
InitFiles ==
  /\ files = {}
  /\ overwritten = {}
  /\ nwrites = 0
  /\ alloc_log = << >>

\* no helper function is being called on its own
InitNoCall ==
  /\ fn_in = None
  /\ fn_out = None

Init == InitWith(PolicyConfigs) /\ InitFiles /\ InitNoCall
InitArtifacts == InitWith(ArtifactConfigs) /\ InitFiles /\ InitNoCall
InitInterval == InitWith(IntervalConfigs) /\ InitFiles /\ InitNoCall


\* ------------------------------------------------------------ pure helpers

\* write_one_segment (api.py:354-365) with write_seg_npz and write_seg_wav:
\* the set of files one call writes. has_full / has_audio: the argument is not None.
\* always_save_speaker has its default, True (line 394).
WriteOneSegment_LogIgnoresDryRun(has_audio, has_full, tag, seg, kw_dry_run, hoarder) ==
  (IF has_full /\ ~kw_dry_run
     THEN {[kind |-> "npz", tag |-> tag, seg |-> seg]} ELSE {})
  \cup
  (IF has_audio /\ tag # "base_history" /\ ~kw_dry_run
     THEN {[kind |-> "wav", tag |-> tag, seg |-> seg]} ELSE {})
  \cup
  (IF hoarder
     THEN {[kind |-> "log", tag |-> tag, seg |-> seg]} ELSE {})
WriteOneSegment(has_audio, has_full, tag, seg, kw_dry_run, hoarder) ==
  (IF has_full /\ ~kw_dry_run
     THEN {[kind |-> "npz", tag |-> tag, seg |-> seg]} ELSE {})
  \cup
  (IF has_audio /\ tag # "base_history" /\ ~kw_dry_run
     THEN {[kind |-> "wav", tag |-> tag, seg |-> seg]} ELSE {})
  \cup
  (IF hoarder /\ ~kw_dry_run
     THEN {[kind |-> "log", tag |-> tag, seg |-> seg]} ELSE {})

\* lines 839-844: a missing interval is 1, a negative one is 0.  The keyword
\* is the number stable_mode_interval + 1/2 when stable_mode_interval_half is
\* set (a float such as 0.5 or 1.5), and the integer otherwise.
NormalizeInterval_NoClamp(opt, half) ==
  IF IsNone(opt) THEN Whole(1) ELSE Number(Val(opt), half)
NormalizeInterval(opt, half) ==
  IF IsNone(opt) THEN Whole(1)
  ELSE IF Val(opt) < 0 THEN Whole(0)
  ELSE Number(Val(opt), half)

\* lines 846-849
\* the counter is a copy of the interval (line 849): an integer, or the float
\* whole + 1/2, which the model writes as a Number
InitialCounter_OffByOne(interval) ==
  IF interval.whole >= 2
    THEN Some(CounterValue(Number(interval.whole - 1, interval.half)))
    ELSE None
InitialCounter(interval) ==
  IF interval.whole >= 2 THEN Some(CounterValue(interval)) ELSE None

\* lines 979-1002: the conditioning choice made before the call of a segment
PreSegment_FlipperInverted(c, flipper, rolling, kw_hp) ==
  IF c.seperate_prompts_flipper
    THEN IF c.seperate_prompts
           THEN IF ~flipper
                  THEN [kw_hp |-> NoneBundle, rolling |-> NoneBundle, flipper |-> TRUE]
                  ELSE [kw_hp |-> rolling, rolling |-> rolling, flipper |-> FALSE]
           ELSE [kw_hp |-> rolling, rolling |-> rolling, flipper |-> flipper]
    ELSE IF c.seperate_prompts
           THEN [kw_hp |-> kw_hp, rolling |-> NoneBundle, flipper |-> flipper]
           ELSE [kw_hp |-> rolling, rolling |-> rolling, flipper |-> flipper]
PreSegment_SeparateForwardsRolling(c, flipper, rolling, kw_hp) ==
  IF c.seperate_prompts_flipper
    THEN IF c.seperate_prompts
           THEN IF flipper
                  THEN [kw_hp |-> NoneBundle, rolling |-> NoneBundle, flipper |-> FALSE]
                  ELSE [kw_hp |-> rolling, rolling |-> rolling, flipper |-> TRUE]
           ELSE [kw_hp |-> rolling, rolling |-> rolling, flipper |-> flipper]
    ELSE IF c.seperate_prompts
           THEN [kw_hp |-> rolling, rolling |-> NoneBundle, flipper |-> flipper]
           ELSE [kw_hp |-> rolling, rolling |-> rolling, flipper |-> flipper]
PreSegment(c, flipper, rolling, kw_hp) ==
  IF c.seperate_prompts_flipper
    THEN IF c.seperate_prompts
           THEN IF flipper
                  THEN [kw_hp |-> NoneBundle, rolling |-> NoneBundle, flipper |-> FALSE]
                  ELSE [kw_hp |-> rolling, rolling |-> rolling, flipper |-> TRUE]
           ELSE [kw_hp |-> rolling, rolling |-> rolling, flipper |-> flipper]
    ELSE IF c.seperate_prompts
           THEN [kw_hp |-> kw_hp, rolling |-> NoneBundle, flipper |-> flipper]
           ELSE [kw_hp |-> rolling, rolling |-> rolling, flipper |-> flipper]

\* lines 1052-1075: the stability interval rule applied after a segment.
\* next is the bundle that is deep-copied into history_prompt_for_next_segment.
StabilityUpdate_ResetAtZero(interval, counter, base, full) ==
  IF interval = Whole(0)
    THEN [ok |-> TRUE, previous_segment_type |-> "full_generation",
          next |-> full, counter |-> counter]
  ELSE IF interval = Whole(1)
    THEN [ok |-> TRUE, previous_segment_type |-> "base_history",
          next |-> base, counter |-> counter]
  ELSE IF counter = Some(0)
    THEN [ok |-> TRUE, previous_segment_type |-> "base_history",
          next |-> base, counter |-> Some(interval.whole)]
    ELSE [ok |-> TRUE, previous_segment_type |-> "full_generation",
          next |-> full, counter |-> Some(Val(counter) - 1)]
StabilityUpdate_Swapped01(interval, counter, base, full) ==
  IF interval = Whole(1)
    THEN [ok |-> TRUE, previous_segment_type |-> "full_generation",
          next |-> full, counter |-> counter]
  ELSE IF interval = Whole(0)
    THEN [ok |-> TRUE, previous_segment_type |-> "base_history",
          next |-> base, counter |-> counter]
  ELSE IF counter = Some(1)
    THEN [ok |-> TRUE, previous_segment_type |-> "base_history",
          next |-> base, counter |-> Some(interval.whole)]
    ELSE [ok |-> TRUE, previous_segment_type |-> "full_generation",
          next |-> full, counter |-> Some(Val(counter) - 1)]
StabilityUpdate(interval, counter, base, full) ==
  IF interval = Whole(0)
    THEN [ok |-> TRUE, previous_segment_type |-> "full_generation",
          next |-> full, counter |-> counter]
  ELSE IF interval = Whole(1)
    THEN [ok |-> TRUE, previous_segment_type |-> "base_history",
          next |-> base, counter |-> counter]
  ELSE IF interval.whole >= 2
    THEN IF interval.half
           \* a float counter (2.5, 1.5, 0.5, -0.5, ...) is never == 1
           THEN [ok |-> TRUE, previous_segment_type |-> "full_generation",
                 next |-> full,
                 counter |-> Some(Number(Val(counter).whole - 1, TRUE))]
         ELSE IF counter = Some(1)
           THEN [ok |-> TRUE, previous_segment_type |-> "base_history",
                 next |-> base, counter |-> Some(interval.whole)]
           ELSE [ok |-> TRUE, previous_segment_type |-> "full_generation",
                 next |-> full, counter |-> Some(Val(counter) - 1)]
  ELSE [ok |-> FALSE, previous_segment_type |-> "", next |-> NoneBundle,
        counter |-> counter]

\* lines 546-563 of generate_audio_barki: the history prompt handed to the
\* coarse and the fine stage
CoarseFineHistory_ZeroBased(hp, previous_segment_type, segment_number, c) ==
  LET h1 == IF previous_segment_type = "base_history" /\ c.semantic_history_only
              THEN NoneBundle ELSE hp
      h2 == IF c.absolute_semantic_history_only THEN NoneBundle ELSE h1
      x  == c.absolute_semantic_history_only_every_x
  IN IF ~IsNone(x) /\ Val(x) > 0 /\ (segment_number - 1) % Val(x) = 0
       THEN NoneBundle ELSE h2
CoarseFineHistory(hp, previous_segment_type, segment_number, c) ==
  LET h1 == IF previous_segment_type = "base_history" /\ c.semantic_history_only
              THEN NoneBundle ELSE hp
      h2 == IF c.absolute_semantic_history_only THEN NoneBundle ELSE h1
      x  == c.absolute_semantic_history_only_every_x
  IN IF ~IsNone(x) /\ Val(x) > 0 /\ segment_number % Val(x) = 0
       THEN NoneBundle ELSE h2

\* the history prompt handed to the semantic stage (lines 482, 516): the local
\* variable, which still holds the kwargs entry
SemanticHistory(local_hp, kw_hp) == local_hp

\* the history prompt handed to the fine stage (line 590): the local variable
\* after the overrides
FineHistory_FromKwargs(local_hp, kw_hp) == kw_hp
FineHistory(local_hp, kw_hp) == local_hp

\* one model stage call, with the flag at the moment the call starts
StageCall(stage, b, hp) ==
  [stage |-> stage, seg |-> b.segment_number, hp |-> hp,
   flag_set |-> gradio_try_to_cancel,
   polls |-> b.polls, last_poll_saw |-> b.last_poll_saw]

\* a poll of gradio_try_to_cancel inside generate_audio_barki that sees it set:
\* done_cancelling = True; return None, None
BarkiCancelled(b, nstages) ==
  [b EXCEPT !.returned = "cancelled", !.full_generation = NoneBundle,
            !.polls = @ + 1, !.last_poll_saw = TRUE, !.stages_at_return = nstages]
\* a poll that sees it clear
BarkiPolled(b) == [b EXCEPT !.polls = @ + 1, !.last_poll_saw = FALSE]
\* a stage call returned
BarkiStageDone(b) == [b EXCEPT !.polls = 0]

AudioOf(seg) == [kind |-> "audio", seg |-> seg]
Silence == [kind |-> "silence", seg |-> 0]

\* ----------------------------------------------------------------- actions

\* frame condition: every variable (but pc) not named in changed keeps its value
Frame(changed) ==
  /\ IF "cfg" \in changed THEN TRUE ELSE UNCHANGED cfg
  /\ IF "gradio_try_to_cancel" \in changed THEN TRUE ELSE UNCHANGED gradio_try_to_cancel
  /\ IF "done_cancelling" \in changed THEN TRUE ELSE UNCHANGED done_cancelling
  /\ IF "stable_mode_interval" \in changed THEN TRUE ELSE UNCHANGED stable_mode_interval
  /\ IF "stable_mode_interval_counter" \in changed THEN TRUE ELSE UNCHANGED stable_mode_interval_counter
  /\ IF "dry_run" \in changed THEN TRUE ELSE UNCHANGED dry_run
  /\ IF "audio_segments" \in changed THEN TRUE ELSE UNCHANGED audio_segments
  /\ IF "history_prompt_for_next_segment" \in changed THEN TRUE ELSE UNCHANGED history_prompt_for_next_segment
  /\ IF "base_history" \in changed THEN TRUE ELSE UNCHANGED base_history
  /\ IF "kw" \in changed THEN TRUE ELSE UNCHANGED kw
  /\ IF "history_prompt_flipper" \in changed THEN TRUE ELSE UNCHANGED history_prompt_flipper
  /\ IF "i" \in changed THEN TRUE ELSE UNCHANGED i
  /\ IF "full_generation_segments" \in changed THEN TRUE ELSE UNCHANGED full_generation_segments
  /\ IF "audio_arr_segments" \in changed THEN TRUE ELSE UNCHANGED audio_arr_segments
  /\ IF "bk" \in changed THEN TRUE ELSE UNCHANGED bk
  /\ IF "disk" \in changed THEN TRUE ELSE UNCHANGED disk
  /\ IF "result" \in changed THEN TRUE ELSE UNCHANGED result
  /\ IF "final_artifact" \in changed THEN TRUE ELSE UNCHANGED final_artifact
  /\ IF "nextId" \in changed THEN TRUE ELSE UNCHANGED nextId
  /\ IF "barki_calls" \in changed THEN TRUE ELSE UNCHANGED barki_calls
  /\ IF "stage_calls" \in changed THEN TRUE ELSE UNCHANGED stage_calls
  /\ IF "roll_log" \in changed THEN TRUE ELSE UNCHANGED roll_log
  /\ IF "segmenter_calls" \in changed THEN TRUE ELSE UNCHANGED segmenter_calls
  /\ IF "cancel_point" \in changed THEN TRUE ELSE UNCHANGED cancel_point
  /\ IF "files" \in changed THEN TRUE ELSE UNCHANGED files
  /\ IF "overwritten" \in changed THEN TRUE ELSE UNCHANGED overwritten
  /\ IF "nwrites" \in changed THEN TRUE ELSE UNCHANGED nwrites
  /\ IF "alloc_log" \in changed THEN TRUE ELSE UNCHANGED alloc_log
  /\ IF "fn_in" \in changed THEN TRUE ELSE UNCHANGED fn_in
  /\ IF "fn_out" \in changed THEN TRUE ELSE UNCHANGED fn_out

\* the external caller (the UI) sets the flag at any point of the run
SetCancel ==
  /\ pc \notin {"returned", "raised"}
  /\ ~gradio_try_to_cancel
  /\ gradio_try_to_cancel' = TRUE
  /\ cancel_point' = pc
  /\ UNCHANGED pc
  /\ Frame({"gradio_try_to_cancel", "cancel_point"})

\* generate_audio_long, lines 817-856
Start ==
  /\ pc = "start"
  /\ kw' = [kw EXCEPT !.history_prompt = NoneBundle]
  /\ stable_mode_interval' = NormalizeInterval(cfg.stable_mode_interval,
                                               cfg.stable_mode_interval_half)
  /\ stable_mode_interval_counter' = InitialCounter(stable_mode_interval')
  /\ dry_run' = Some(cfg.dry_run \/ cfg.text_splits_only)
  /\ full_generation_segments' = << >>
  /\ audio_arr_segments' = << >>
  /\ pc' = "segmenting"
  /\ Frame({"kw", "stable_mode_interval", "stable_mode_interval_counter", "dry_run",
            "full_generation_segments", "audio_arr_segments"})

\* lines 872-883: the segmenter runs, then the splits-only return
Segmenting_ReturnsSegments ==
  /\ pc = "segmenting"
  /\ segmenter_calls' = segmenter_calls + 1
  /\ audio_segments' = cfg.nseg
  /\ IF cfg.text_splits_only
       THEN /\ pc' = "returned"
            /\ result' = [status |-> "returned", value |-> "segments",
                          cause |-> "text_splits_only"]
       ELSE /\ pc' = "resolve"
            /\ UNCHANGED result
  /\ Frame({"segmenter_calls", "audio_segments", "result"})
Segmenting ==
  /\ pc = "segmenting"
  /\ segmenter_calls' = segmenter_calls + 1
  /\ audio_segments' = cfg.nseg
  /\ IF cfg.text_splits_only
       THEN /\ pc' = "returned"
            /\ result' = ReturnNone3("text_splits_only")
       ELSE /\ pc' = "resolve"
            /\ UNCHANGED result
  /\ Frame({"segmenter_calls", "audio_segments", "result"})

\* ---- the validators (api.py:1511-1683) ----

SEMANTIC_VOCAB_SIZE == 10000
CODEBOOK_SIZE == 1024
N_COARSE_CODEBOOKS == 2
N_FINE_CODEBOOKS == 8

\* an integer array: its shape and, when it has elements, its least and
\* greatest value (all the validators read of the values)
Size(shape) == IF shape = << >> THEN 1
               ELSE IF Len(shape) = 1 THEN shape[1] ELSE shape[1] * shape[2]
Arrays(shapes, values) ==
  { a \in [shape : shapes, lo : values, hi : values] :
      /\ Size(a.shape) > 0
      /\ a.lo <= a.hi
      /\ Size(a.shape) = 1 => a.lo = a.hi }
    \cup { [shape |-> sh, lo |-> 0, hi |-> 0] : sh \in {x \in shapes : Size(x) = 0} }

SemanticShapes ==
  { << >> } \cup { << n >> : n \in 0..MaxLen } \cup { << 1, MaxLen >> }
CoarseShapes ==
  { << N_COARSE_CODEBOOKS >> }
    \cup { << r, t >> : r \in {1, N_COARSE_CODEBOOKS}, t \in 0..MaxLen }
FineShapes ==
  { << N_FINE_CODEBOOKS >> }
    \cup { << r, t >> : r \in {N_FINE_CODEBOOKS - 1, N_FINE_CODEBOOKS}, t \in 0..MaxLen }

\* bundles whose three entries are integer arrays
Bundles ==
  [ semantic_prompt : Arrays(SemanticShapes,
                             {-1, SEMANTIC_VOCAB_SIZE - 1, SEMANTIC_VOCAB_SIZE}),
    coarse_prompt : Arrays(CoarseShapes, {-1, CODEBOOK_SIZE - 1, CODEBOOK_SIZE}),
    fine_prompt : Arrays(FineShapes, {-1, CODEBOOK_SIZE - 1, CODEBOOK_SIZE}) ]

\* a call returns a value or raises
Returns(value) == [status |-> "returned", value |-> value, error |-> "none"]
Raises(error) == [status |-> "raised", value |-> FALSE, error |-> error]

\* lines 1521-1542 and 1558-1579: the checks of semantic_prompt
SemanticChecks(a) ==
  IF Len(a.shape) # 1 THEN FALSE
  ELSE IF a.shape[1] = 0 THEN FALSE
  ELSE IF a.lo < 0 THEN FALSE
  ELSE IF a.hi >= SEMANTIC_VOCAB_SIZE THEN FALSE
  ELSE TRUE

\* generate_text_semantic_report (api.py:1511-1544): report["valid"]
GenerateTextSemanticReport(b) == Returns(SemanticChecks(b.semantic_prompt))

\* lines 1549 and 1612-1613: round(T / len(semantic), 1) == round(75 / 49.9, 1),
\* which is 1.5; the quotients 1.45 and 1.55 round away from 1.5
RatioMatches(t, len) == 145 * len < 100 * t /\ 100 * t < 155 * len

\* generate_coarse_report (api.py:1547-1619): report["valid"].  The ratio is
\* computed whenever coarse_prompt passed its shape checks, whatever
\* semantic_prompt is: len() of a 0-d array and the division by a length of 0
\* raise.
GenerateCoarseReport(b) ==
  LET sem == b.semantic_prompt
      c == b.coarse_prompt
  IN IF Len(c.shape) # 2 THEN Returns(FALSE)
     ELSE IF c.shape[1] # N_COARSE_CODEBOOKS THEN Returns(FALSE)
     ELSE IF Size(c.shape) = 0 THEN Returns(FALSE)
     ELSE IF sem.shape = << >> THEN Raises("TypeError")
     ELSE IF sem.shape[1] = 0 THEN Raises("ZeroDivisionError")
     ELSE Returns(/\ SemanticChecks(sem)
                  /\ c.lo >= 0 /\ c.hi < CODEBOOK_SIZE
                  /\ RatioMatches(c.shape[2], sem.shape[1]))

\* generate_fine_report (api.py:1622-1659): report["valid"]
GenerateFineReport(b) ==
  LET f == b.fine_prompt
  IN IF Len(f.shape) # 2 THEN Returns(FALSE)
     ELSE IF Size(f.shape) = 0 THEN Returns(FALSE)
     ELSE IF f.shape[1] # N_FINE_CODEBOOKS THEN Returns(FALSE)
     ELSE IF f.lo < 0 THEN Returns(FALSE)
     ELSE IF f.hi >= CODEBOOK_SIZE THEN Returns(FALSE)
     ELSE Returns(TRUE)

\* history_prompt_is_valid (api.py:1671-1683) on a bundle that was loaded
HistoryPromptIsValidOf(b) ==
  LET semantic_report == GenerateTextSemanticReport(b)
      coarse_report == GenerateCoarseReport(b)
      fine_report == GenerateFineReport(b)
  IN IF coarse_report.status = "raised" THEN coarse_report
     ELSE Returns(semantic_report.value /\ coarse_report.value /\ fine_report.value)

\* the speaker names of the model: "missing" names no file; "valid", "invalid"
\* and "raising" name a file that exists (os.path.exists, lines 250 and 257)
\* and holds the bundle StoredBundle gives
HistoryPromptExists(name) == name \in {"valid", "invalid", "raising"}

\* the bundle the file of a speaker name holds: one that passes every check,
\* one with a negative semantic token, and one whose semantic_prompt is empty
\* beside a well-shaped coarse_prompt
StoredBundle(name) ==
  LET sem(n, lo) == [shape |-> << n >>, lo |-> lo, hi |-> 0]
      stored(semantic) ==
        [semantic_prompt |-> semantic,
         coarse_prompt |-> [shape |-> << N_COARSE_CODEBOOKS, 3 >>, lo |-> 0, hi |-> 0],
         fine_prompt |-> [shape |-> << N_FINE_CODEBOOKS, 3 >>, lo |-> 0, hi |-> 0]]
  IN IF name = "valid" THEN stored(sem(2, 0))
     ELSE IF name = "invalid" THEN stored(sem(2, -1))
     ELSE stored(sem(0, 0))

\* history_prompt_is_valid (api.py:1671-1683) on the file of a speaker name:
\* it returns a boolean or lets the exception of a report through
HistoryPromptIsValid(name) == HistoryPromptIsValidOf(StoredBundle(name))

\* process_history_prompt (api.py:235-269) for the speaker name of the run: it
\* returns the path of a file that exists and is valid, or None, or raises
\* what history_prompt_is_valid raises (line 265)
ProcessHistoryPrompt_NoValidation(name) ==
  IF HistoryPromptExists(name) THEN Returns(Some(name)) ELSE Returns(None)
ProcessHistoryPrompt(name) ==
  IF ~HistoryPromptExists(name) THEN Returns(None)
  ELSE LET valid == HistoryPromptIsValid(name)
       IN IF valid.status = "raised" THEN valid
          ELSE IF ~valid.value THEN Returns(None)
          ELSE Returns(Some(name))

\* lines 885-902: base conditioning
ResolveHistory ==
  /\ pc = "resolve"
  /\ IF cfg.history_prompt = "None"
       THEN /\ history_prompt_for_next_segment' = NoneBundle
            /\ base_history' = NoneBundle
            /\ pc' = "hoarder"
            /\ UNCHANGED << kw, nextId, gradio_try_to_cancel, done_cancelling, result >>
       ELSE IF ProcessHistoryPrompt(cfg.history_prompt).status = "raised"
         \* the exception leaves generate_audio_long at line 889
         THEN /\ history_prompt_for_next_segment' = NoneBundle
              /\ base_history' = NoneBundle
              /\ pc' = "raised"
              /\ result' = Raised(ProcessHistoryPrompt(cfg.history_prompt).error)
              /\ UNCHANGED << kw, nextId, gradio_try_to_cancel, done_cancelling >>
       ELSE IF ~IsNone(ProcessHistoryPrompt(cfg.history_prompt).value)
         THEN /\ base_history' = [src |-> "file", seg |-> 0, id |-> nextId]
              /\ history_prompt_for_next_segment' = DeepCopy(base_history', nextId + 1)
              /\ nextId' = nextId + 2
              /\ kw' = [kw EXCEPT !.history_prompt_string = TRUE,
                                  !.previous_segment_type = "base_history"]
              /\ pc' = "hoarder"
              /\ UNCHANGED << gradio_try_to_cancel, done_cancelling, result >>
         ELSE /\ gradio_try_to_cancel' = TRUE
              /\ done_cancelling' = TRUE
              /\ history_prompt_for_next_segment' = NoneBundle
              /\ base_history' = NoneBundle
              /\ pc' = "returned"
              /\ result' = ReturnNone3("speaker_not_found")
              /\ UNCHANGED << kw, nextId >>
  /\ Frame({"history_prompt_for_next_segment", "base_history", "kw", "nextId",
            "gradio_try_to_cancel", "done_cancelling", "result"})

\* lines 904-938: hoarder directory, the base_history artifact, loop set-up
HoarderSetup ==
  /\ pc = "hoarder"
  /\ disk' = disk \cup
       (IF cfg.hoarder_mode /\ kw.history_prompt_string
          THEN WriteOneSegment(FALSE, TRUE, "base_history", 0, cfg.dry_run,
                               cfg.hoarder_mode)
          ELSE {})
  /\ history_prompt_flipper' = FALSE
  /\ i' = 0
  /\ pc' = "loop"
  /\ Frame({"disk", "history_prompt_flipper", "i"})

\* line 961: segment_number = i + 1, for the loop index i from 0
SegmentNumber_ZeroBased(index) == index
SegmentNumber(index) == index + 1

\* lines 939-1003: head of one iteration, up to the conditioning choice
LoopHead ==
  /\ pc = "loop"
  /\ IF i >= audio_segments
       THEN /\ pc' = "check1097"
            /\ UNCHANGED << kw, i, history_prompt_for_next_segment,
                            history_prompt_flipper >>
       ELSE IF dry_run = Some(TRUE)
         THEN /\ kw' = [kw EXCEPT !.segment_number = SegmentNumber(i)]
              /\ i' = i + 1
              /\ pc' = "loop"
              /\ UNCHANGED << history_prompt_for_next_segment, history_prompt_flipper >>
         ELSE LET p == PreSegment(cfg, history_prompt_flipper,
                                  history_prompt_for_next_segment, kw.history_prompt)
              IN /\ kw' = [kw EXCEPT !.segment_number = SegmentNumber(i),
                                     !.history_prompt = p.kw_hp]
                 /\ history_prompt_for_next_segment' = p.rolling
                 /\ history_prompt_flipper' = p.flipper
                 /\ pc' = "check1007"
                 /\ UNCHANGED i
  /\ Frame({"kw", "i", "history_prompt_for_next_segment", "history_prompt_flipper"})

\* lines 1007-1014: the check before the pipeline call, then the call
Check1007 ==
  /\ pc = "check1007"
  /\ IF gradio_try_to_cancel
       THEN /\ done_cancelling' = TRUE
            /\ pc' = "returned"
            /\ result' = ReturnNone3("cancelled")
            /\ UNCHANGED << bk, barki_calls >>
       ELSE /\ bk' = [NoBarki EXCEPT !.history_prompt = kw.history_prompt,
                                     !.kw_history_prompt = kw.history_prompt,
                                     !.segment_number = kw.segment_number,
                                     !.previous_segment_type = kw.previous_segment_type]
            /\ barki_calls' = Append(barki_calls,
                 [seg |-> kw.segment_number, hp |-> kw.history_prompt,
                  previous_segment_type |-> kw.previous_segment_type,
                  rolling |-> history_prompt_for_next_segment,
                  base |-> base_history,
                  counter |-> stable_mode_interval_counter])
            /\ pc' = "bk505"
            /\ UNCHANGED << done_cancelling, result >>
  /\ Frame({"done_cancelling", "result", "bk", "barki_calls"})


\* ---- generate_audio_barki, one segment ----

\* a poll of the flag inside generate_audio_barki: return None, None when it is set
BarkiCheck_NoReturn(at, next) ==
  /\ pc = at
  /\ done_cancelling' = (done_cancelling \/ gradio_try_to_cancel)
  /\ bk' = [bk EXCEPT !.polls = @ + 1, !.last_poll_saw = gradio_try_to_cancel]
  /\ pc' = next
  /\ Frame({"done_cancelling", "bk"})
BarkiCheck(at, next) ==
  /\ pc = at
  /\ IF gradio_try_to_cancel
       THEN /\ done_cancelling' = TRUE
            /\ bk' = BarkiCancelled(bk, Len(stage_calls))
            /\ pc' = "after_barki"
       ELSE /\ bk' = BarkiPolled(bk)
            /\ pc' = next
            /\ UNCHANGED done_cancelling
  /\ Frame({"done_cancelling", "bk"})

\* lines 505-511
Bk505 == BarkiCheck("bk505", "semantic")

\* lines 513-525: generate_text_semantic
Semantic ==
  /\ pc = "semantic"
  /\ stage_calls' = Append(stage_calls,
       StageCall("semantic", bk,
                 SemanticHistory(bk.history_prompt, bk.kw_history_prompt)))
  /\ bk' = BarkiStageDone(bk)
  /\ pc' = "bk528"
  /\ Frame({"stage_calls", "bk"})

\* lines 528-530
Bk528 == BarkiCheck("bk528", "bk542")

\* lines 542-563: the poll, then the overrides of the history prompt
Bk542 ==
  /\ pc = "bk542"
  /\ IF gradio_try_to_cancel
       THEN /\ done_cancelling' = TRUE
            /\ bk' = BarkiCancelled(bk, Len(stage_calls))
            /\ pc' = "after_barki"
       ELSE /\ bk' = [BarkiPolled(bk) EXCEPT !.history_prompt =
                        CoarseFineHistory(bk.history_prompt, bk.previous_segment_type,
                                          bk.segment_number, cfg)]
            /\ pc' = "coarse"
            /\ UNCHANGED done_cancelling
  /\ Frame({"done_cancelling", "bk"})

\* lines 565-576: generate_coarse
Coarse ==
  /\ pc = "coarse"
  /\ stage_calls' = Append(stage_calls, StageCall("coarse", bk, bk.history_prompt))
  /\ bk' = BarkiStageDone(bk)
  /\ pc' = "bk584"
  /\ Frame({"stage_calls", "bk"})

\* lines 584-586
Bk584 == BarkiCheck("bk584", "fine")

\* lines 587-593: generate_fine
Fine ==
  /\ pc = "fine"
  /\ stage_calls' = Append(stage_calls,
       StageCall("fine", bk, FineHistory(bk.history_prompt, bk.kw_history_prompt)))
  /\ bk' = BarkiStageDone(bk)
  /\ pc' = "bk595"
  /\ Frame({"stage_calls", "bk"})

\* lines 595-597
Bk595 == BarkiCheck("bk595", "decode")

\* lines 598-603: codec_decode, then the full_generation dict
Decode ==
  /\ pc = "decode"
  /\ stage_calls' = Append(stage_calls, StageCall("decode", bk, NoneBundle))
  /\ bk' = [BarkiStageDone(bk) EXCEPT !.full_generation =
                        [src |-> "gen", seg |-> bk.segment_number, id |-> nextId]]
  /\ nextId' = nextId + 1
  /\ pc' = "bk605"
  /\ Frame({"stage_calls", "bk", "nextId"})

\* the files generate_audio_barki writes for its segment (lines 609-613)
BarkiWrites_Or(c, total_segments, segment_number) ==
  IF c.hoarder_mode \/ total_segments > 1
    THEN WriteOneSegment(TRUE, TRUE, "segment", segment_number, c.dry_run, c.hoarder_mode)
    ELSE {}
BarkiWrites(c, total_segments, segment_number) ==
  IF c.hoarder_mode /\ total_segments > 1
    THEN WriteOneSegment(TRUE, TRUE, "segment", segment_number, c.dry_run, c.hoarder_mode)
    ELSE {}

\* lines 605-618: the last poll, the hoarder write, the return
Bk605 ==
  /\ pc = "bk605"
  /\ IF gradio_try_to_cancel
       THEN /\ done_cancelling' = TRUE
            /\ bk' = BarkiCancelled(bk, Len(stage_calls))
            /\ UNCHANGED disk
       ELSE /\ disk' = disk \cup BarkiWrites(cfg, audio_segments, bk.segment_number)
            /\ bk' = [BarkiPolled(bk) EXCEPT !.returned = "full",
                                             !.stages_at_return = Len(stage_calls)]
            /\ UNCHANGED done_cancelling
  /\ pc' = "after_barki"
  /\ Frame({"done_cancelling", "bk", "disk"})

\* ---- generate_audio_long, after the pipeline call ----

\* lines 1020-1086
AfterBarki ==
  /\ pc = "after_barki"
  /\ IF gradio_try_to_cancel \/ bk.returned = "cancelled"
       THEN /\ kw' = [history_prompt |-> NoneBundle, previous_segment_type |-> "",
                      history_prompt_string |-> FALSE, segment_number |-> 0]
            /\ history_prompt_for_next_segment' = NoneBundle
            /\ base_history' = NoneBundle
            /\ done_cancelling' = TRUE
            /\ pc' = "returned"
            /\ result' = ReturnNone3("cancelled")
            /\ UNCHANGED << stable_mode_interval_counter, full_generation_segments,
                            audio_arr_segments, roll_log, i, nextId >>
       ELSE LET full == bk.full_generation
                base == IF IsNoneBundle(base_history)
                          THEN DeepCopy(full, nextId) ELSE base_history
                u == StabilityUpdate(stable_mode_interval, stable_mode_interval_counter,
                                     base, full)
            IN /\ base_history' = base
               /\ nextId' = nextId + 2
               /\ UNCHANGED done_cancelling
               /\ IF ~u.ok
                    THEN /\ pc' = "returned"
                         /\ result' = ReturnNone3("bad_interval")
                         /\ UNCHANGED << kw, history_prompt_for_next_segment,
                                         stable_mode_interval_counter,
                                         full_generation_segments, audio_arr_segments,
                                         roll_log, i >>
                    ELSE /\ kw' = [kw EXCEPT !.previous_segment_type =
                                                u.previous_segment_type]
                         /\ history_prompt_for_next_segment' = DeepCopy(u.next, nextId + 1)
                         /\ stable_mode_interval_counter' = u.counter
                         /\ full_generation_segments' =
                              Append(full_generation_segments, full)
                         /\ audio_arr_segments' =
                              IF cfg.add_silence_between_segments
                                THEN audio_arr_segments
                                       \o << AudioOf(bk.segment_number), Silence >>
                                ELSE Append(audio_arr_segments, AudioOf(bk.segment_number))
                         /\ roll_log' = Append(roll_log,
                              [seg |-> bk.segment_number,
                               rolling |-> history_prompt_for_next_segment',
                               base |-> base_history',
                               counter |-> stable_mode_interval_counter'])
                         /\ i' = i + 1
                         /\ pc' = "loop"
                         /\ UNCHANGED result
  /\ Frame({"kw", "history_prompt_for_next_segment", "base_history", "done_cancelling",
            "result", "stable_mode_interval_counter", "full_generation_segments",
            "audio_arr_segments", "roll_log", "i", "nextId"})

\* lines 1097-1100: the poll after the loop
Check1097_DoneNotSet ==
  /\ pc = "check1097"
  /\ IF gradio_try_to_cancel
       THEN /\ pc' = "returned"
            /\ result' = ReturnNone3("cancelled")
            /\ UNCHANGED done_cancelling
       ELSE /\ pc' = "finalize"
            /\ UNCHANGED << done_cancelling, result >>
  /\ Frame({"done_cancelling", "result"})
Check1097_NoPoll ==
  /\ pc = "check1097"
  /\ pc' = "finalize"
  /\ UNCHANGED << done_cancelling, result >>
  /\ Frame({"done_cancelling", "result"})
Check1097 ==
  /\ pc = "check1097"
  /\ IF gradio_try_to_cancel
       THEN /\ done_cancelling' = TRUE
            /\ pc' = "returned"
            /\ result' = ReturnNone3("cancelled")
       ELSE /\ pc' = "finalize"
            /\ UNCHANGED << done_cancelling, result >>
  /\ Frame({"done_cancelling", "result"})

\* lines 1102-1109: the final artifact.  np.concatenate of an empty list raises.
\* line 1104: dry_run = kwargs.get('dry_run', None)
KwargsDryRun(c) == IF c.dry_run_given THEN Some(c.dry_run) ELSE None

Finalize_LastBundle ==
  /\ pc = "finalize"
  /\ IF cfg.dry_run
       THEN /\ pc' = "returned"
            /\ result' = ReturnArtifacts
            /\ UNCHANGED << disk, final_artifact >>
       ELSE IF audio_arr_segments = << >>
         THEN /\ pc' = "raised"
              /\ result' = Raised("concatenate_empty")
              /\ UNCHANGED << disk, final_artifact >>
         ELSE /\ disk' = disk \cup WriteOneSegment(TRUE, TRUE, "final", 0, cfg.dry_run,
                                                   cfg.hoarder_mode)
              /\ final_artifact' =
                   Some([audio |-> audio_arr_segments,
                         bundle |-> full_generation_segments[Len(full_generation_segments)]])
              /\ pc' = "returned"
              /\ result' = ReturnArtifacts
  /\ dry_run' = KwargsDryRun(cfg)
  /\ Frame({"disk", "final_artifact", "result", "dry_run"})
Finalize ==
  /\ pc = "finalize"
  /\ IF cfg.dry_run
       THEN /\ pc' = "returned"
            /\ result' = ReturnArtifacts
            /\ UNCHANGED << disk, final_artifact >>
       ELSE IF audio_arr_segments = << >>
         THEN /\ pc' = "raised"
              /\ result' = Raised("concatenate_empty")
              /\ UNCHANGED << disk, final_artifact >>
         ELSE /\ disk' = disk \cup WriteOneSegment(TRUE, TRUE, "final", 0, cfg.dry_run,
                                                   cfg.hoarder_mode)
              /\ final_artifact' = Some([audio |-> audio_arr_segments,
                                         bundle |-> full_generation_segments[1]])
              /\ pc' = "returned"
              /\ result' = ReturnArtifacts
  /\ dry_run' = KwargsDryRun(cfg)
  /\ Frame({"disk", "final_artifact", "result", "dry_run"})

Next ==
  \/ SetCancel
  \/ Start
  \/ Segmenting
  \/ ResolveHistory
  \/ HoarderSetup
  \/ LoopHead
  \/ Check1007
  \/ Bk505
  \/ Semantic
  \/ Bk528
  \/ Bk542
  \/ Coarse
  \/ Bk584
  \/ Fine
  \/ Bk595
  \/ Decode
  \/ Bk605
  \/ AfterBarki
  \/ Check1097
  \/ Finalize

Spec == Init /\ [][Next]_vars
SpecArtifacts == InitArtifacts /\ [][Next]_vars
SpecInterval == InitInterval /\ [][Next]_vars

\* ---- generate_audio_long called again in the same process ----

\* the keyword arguments of the calls of a process that calls the function
\* more than once
CallConfigs ==
  { c \in ArtifactConfigs : /\ c.stable_mode_interval = None
                            /\ c.history_prompt \in {"None", "missing"}
                            /\ c.nseg \in {0, 2}
                            /\ ~c.hoarder_mode /\ ~c.text_splits_only
                            /\ ~c.add_silence_between_segments }

\* a later call of generate_audio_long, after the call before it has ended:
\* the module globals (lines 37-44) and the files on disk are what the
\* earlier calls left, the locals of the function are new.  cancel_point
\* records whether the flag was already set when the call started.
CallAgain ==
  /\ pc \in {"returned", "raised"}
  /\ cfg' \in CallConfigs
  /\ pc' = "start"
  /\ stable_mode_interval' = Whole(0)
  /\ stable_mode_interval_counter' = None
  /\ dry_run' = Some(FALSE)
  /\ audio_segments' = 0
  /\ history_prompt_for_next_segment' = NoneBundle
  /\ base_history' = NoneBundle
  /\ kw' = [history_prompt |-> NoneBundle, previous_segment_type |-> "",
            history_prompt_string |-> FALSE, segment_number |-> 0]
  /\ history_prompt_flipper' = FALSE
  /\ i' = 0
  /\ full_generation_segments' = << >>
  /\ audio_arr_segments' = << >>
  /\ bk' = NoBarki
  /\ result' = NoResult
  /\ final_artifact' = None
  /\ nextId' = 1
  /\ barki_calls' = << >>
  /\ stage_calls' = << >>
  /\ roll_log' = << >>
  /\ segmenter_calls' = 0
  /\ cancel_point' = IF gradio_try_to_cancel THEN "earlier_call" ELSE "none"
  /\ UNCHANGED << gradio_try_to_cancel, done_cancelling, disk, files, overwritten,
                  nwrites, alloc_log, fn_in, fn_out >>

NextCalls ==
  \/ Next
  \/ CallAgain

InitCalls == InitWith(CallConfigs) /\ InitFiles /\ InitNoCall
SpecCalls == InitCalls /\ [][NextCalls]_vars


\* ------------------------------------------------- save operations and paths

\* A path is the sequence of its parts; the model cuts a path only where the code
\* cuts or extends one: at the extension (os.path.splitext), at the counter
\* suffix of generate_unique_filepath and at the texts the code appends.
\* sanitize_filepath leaves the clean names used here as they are.
Tok(s) == [s |-> s, n |-> 0]
SuffixTok(counter) == [s |-> "_", n |-> counter]
Extensions == {".npz", ".wav", ".mp3", ".txt"}

\* os.path.splitext
SplitExt(path) ==
  IF Len(path) > 1 /\ path[Len(path)].s \in Extensions
    THEN [name |-> SubSeq(path, 1, Len(path) - 1), ext |-> << path[Len(path)] >>]
    ELSE [name |-> path, ext |-> << >>]

EndsWith(path, ext) == Len(path) > 0 /\ path[Len(path)] = Tok(ext)

\* generate_unique_filepath (api.py:378-385): the path itself when it is free,
\* else name_counter.ext for the first counter from 1 that is free
\* lines 381-384: the loop, with the candidate and the counter it holds
RECURSIVE UniqueLoop(_, _, _, _, _)
UniqueLoop(existing, name, ext, unique_filename, counter) ==
  IF unique_filename \in existing
    THEN UniqueLoop(existing, name, ext, name \o << SuffixTok(counter) >> \o ext,
                    counter + 1)
    ELSE unique_filename

GenerateUniqueFilepath_NoLoop(existing, filepath) ==
  IF filepath \in existing
    THEN SplitExt(filepath).name \o << SuffixTok(1) >> \o SplitExt(filepath).ext
    ELSE filepath
GenerateUniqueFilepath_CounterFromTwo(existing, filepath) ==
  UniqueLoop(existing, SplitExt(filepath).name, SplitExt(filepath).ext, filepath, 2)
GenerateUniqueFilepath(existing, filepath) ==
  UniqueLoop(existing, SplitExt(filepath).name, SplitExt(filepath).ext, filepath, 1)

\* a file system with its history: fsys.files, fsys.over
FsWrite(fsys, path, by) ==
  [files |-> fsys.files \cup {path},
   over |-> fsys.over \cup (IF path \in fsys.files
                                THEN {[by |-> by, path |-> path]} ELSE {})]
FsRemove(fsys, path) == [fsys EXCEPT !.files = @ \ {path}]

\* numpy.savez appends ".npz" to a file name that does not end with it
NpSavez(fsys, path, by) ==
  FsWrite(fsys, IF EndsWith(path, ".npz") THEN path ELSE path \o << Tok(".npz") >>, by)

\* save_as_prompt (api.py:123-129), for a path that passes the assert
SaveAsPromptOp(fsys, filepath) == NpSavez(fsys, filepath, "save_as_prompt")

\* write_seg_npz (api.py:387-398) for a bundle that has its three arrays
WriteSegNpzOp(fsys, filepath, is_base_history, kw_dry_run, always_save_speaker) ==
  LET p1 == IF is_base_history
              THEN filepath \o << Tok("_initial_prompt"), Tok(".npz") >>
              ELSE filepath
  IN IF ~kw_dry_run /\ always_save_speaker
       THEN NpSavez(fsys, GenerateUniqueFilepath(fsys.files, p1), "write_seg_npz")
       ELSE fsys

\* line 432: the name of the temporary file is this literal text
TempWav == << Tok("{output_filepath}"), Tok(".tmp"), Tok(".wav") >>

\* write_audiofile (api.py:415-451); output_format "None" is written as mp3
WriteAudiofileOp(fsys, output_filepath, kw_dry_run, output_format) ==
  LET out == GenerateUniqueFilepath(fsys.files, output_filepath)
  IN IF kw_dry_run THEN fsys
     ELSE IF output_format \in {"None", "mp3", "ogg", "flac", "mp4"}
       THEN FsRemove(FsWrite(FsWrite(fsys, TempWav, "write_seg_wav"),
                             out, "write_seg_wav"),
                     TempWav)
       ELSE FsWrite(fsys, out, "write_seg_wav")

\* write_seg_wav (api.py:404-409)
WriteSegWavOp(fsys, filepath, kw_dry_run, output_format) ==
  IF ~kw_dry_run
    THEN WriteAudiofileOp(fsys, GenerateUniqueFilepath(fsys.files, filepath),
                          kw_dry_run, output_format)
    ELSE fsys

\* log_params (api.py:271-288)
LogParamsOp(fsys, log_filepath) ==
  FsWrite(fsys, GenerateUniqueFilepath(fsys.files, log_filepath), "log_params")

\* write_one_segment (api.py:354-365) on the path determine_output_filename built
\* before it made it unique (line 349)
WriteOneSegmentOp(fsys, requested, has_audio, has_full, is_base_history, hoarder, kw_dry_run, output_format) ==
  LET filepath == GenerateUniqueFilepath(fsys.files, requested)
      s1 == IF has_full
              THEN WriteSegNpzOp(fsys, filepath, is_base_history, kw_dry_run, TRUE)
              ELSE fsys
      s2 == IF has_audio /\ ~is_base_history
              THEN WriteSegWavOp(s1, filepath, kw_dry_run, output_format)
              ELSE s1
  IN IF hoarder /\ ~kw_dry_run
       THEN LogParamsOp(s2, filepath \o << Tok("_info"), Tok(".txt") >>)
       ELSE s2

\* the paths and formats callers ask for
RequestedPaths ==
  { << Tok("a") >>, << Tok("a"), Tok(".npz") >>, << Tok("a"), Tok(".wav") >> }
OutputFormats == {"None", "wav"}

Fsys == [files |-> files, over |-> overwritten]
\* one save operation with result r; the run of generate_audio_long is not touched
SaveStep(r) ==
  /\ nwrites < MaxWrites
  /\ files' = r.files
  /\ overwritten' = r.over
  /\ nwrites' = nwrites + 1
  /\ UNCHANGED pc
  /\ Frame({"files", "overwritten", "nwrites"})

SaveAsPrompt ==
  \E filepath \in RequestedPaths :
    /\ EndsWith(filepath, ".npz")
    /\ SaveStep(SaveAsPromptOp(Fsys, filepath))

WriteSegNpz ==
  \E filepath \in RequestedPaths, is_base_history, kw_dry_run \in Booleans :
    SaveStep(WriteSegNpzOp(Fsys, filepath, is_base_history, kw_dry_run, TRUE))

WriteSegWav ==
  \E filepath \in RequestedPaths, kw_dry_run \in Booleans, fmt \in OutputFormats :
    SaveStep(WriteSegWavOp(Fsys, filepath, kw_dry_run, fmt))

LogParams ==
  \E filepath \in RequestedPaths :
    SaveStep(LogParamsOp(Fsys, filepath \o << Tok("_info"), Tok(".txt") >>))

\* the artifact writes of a run: base_history (line 917), a segment (line 613),
\* the final artifact (line 1106)
WriteOneSegmentFiles ==
  \E requested \in RequestedPaths, tag \in {"base_history", "segment"},
     hoarder, kw_dry_run \in Booleans, fmt \in OutputFormats :
    SaveStep(WriteOneSegmentOp(Fsys, requested, tag = "segment", TRUE,
                               tag = "base_history", hoarder, kw_dry_run, fmt))

NextFiles ==
  \/ SaveAsPrompt
  \/ WriteSegNpz
  \/ WriteSegWav
  \/ LogParams
  \/ WriteOneSegmentFiles

\* the configuration of a run with every option at its default
DefaultConfig ==
  [ stable_mode_interval |-> None, stable_mode_interval_half |-> FALSE,
    history_prompt |-> "None", nseg |-> 1,
    seperate_prompts |-> FALSE, seperate_prompts_flipper |-> FALSE,
    semantic_history_only |-> FALSE, absolute_semantic_history_only |-> FALSE,
    absolute_semantic_history_only_every_x |-> None, hoarder_mode |-> FALSE,
    dry_run |-> FALSE, dry_run_given |-> FALSE, text_splits_only |-> FALSE,
    add_silence_between_segments |-> FALSE ]

\* sequences of save operations, between runs
InitSaves == InitWith({DefaultConfig}) /\ InitFiles /\ InitNoCall
SpecFiles == InitSaves /\ [][NextFiles]_vars


\* ------------------------------------------------------------ path allocation

\* the paths allocation is asked for, and the files found on disk at the start
AllocBases == { << Tok("a"), Tok(".wav") >>, << Tok("a") >> }
AllocPreExisting ==
  { << Tok("a"), Tok(".wav") >>, << Tok("a"), SuffixTok(1), Tok(".wav") >>,
    << Tok("a"), SuffixTok(2), Tok(".wav") >>, << Tok("a") >> }

\* a caller asks generate_unique_filepath for a path; nothing is created
Allocate ==
  \E filepath \in AllocBases :
    /\ Len(alloc_log) < MaxAllocs
    /\ alloc_log' = Append(alloc_log,
                           [base |-> filepath,
                            path |-> GenerateUniqueFilepath(files, filepath),
                            before |-> files])
    /\ UNCHANGED pc
    /\ Frame({"alloc_log"})

\* the caller writes the file at the path it was given last (line 285, 397, 446)
WriteAllocated ==
  /\ alloc_log # << >>
  /\ alloc_log[Len(alloc_log)].path \notin files
  /\ files' = files \cup {alloc_log[Len(alloc_log)].path}
  /\ UNCHANGED pc
  /\ Frame({"files"})

NextAlloc ==
  \/ Allocate
  \/ WriteAllocated

InitAlloc ==
  /\ InitWith({DefaultConfig})
  /\ files \in SUBSET AllocPreExisting
  /\ overwritten = {}
  /\ nwrites = 0
  /\ alloc_log = << >>
  /\ InitNoCall

\* allocations and writes on a directory that already holds some files
SpecAlloc == InitAlloc /\ [][NextAlloc]_vars


\* ------------------------------------------------------ helper functions

\* a helper function called on its own: the call returns value
Return(value) ==
  /\ fn_out = None
  /\ fn_out' = Some(value)
  /\ UNCHANGED pc
  /\ Frame({"fn_out"})

\* ---- process_history_prompt (api.py:235-269) ----

\* what a place holds: no file, a file history_prompt_is_valid accepts, or a
\* file it rejects
FileStates == {"absent", "valid", "invalid"}

\* the calls: a name with or without a directory part, the file at the named
\* place (used when a directory is given), and the file of that name in each
\* directory of VALID_HISTORY_PROMPT_DIRS, in the order of the list
LookupInputs ==
  [ has_dir : Booleans, has_ext : Booleans, at_path : FileStates,
    dirs : UNION { [1..n -> FileStates] : n \in 1..MaxDirs } ]

\* lines 255-258: the loop over the directories; returned is an option holding
\* the position of the directory of history_prompt_returned
RECURSIVE SearchDirs(_, _, _)
SearchDirs(dirs, k, returned) ==
  IF k > Len(dirs) THEN returned
  ELSE SearchDirs(dirs, k + 1, IF dirs[k] # "absent" THEN Some(k) ELSE returned)

\* process_history_prompt: None, or the place of the file returned: dir 0 is the
\* directory given in the name; the extension is the given one or ".npz"
ProcessHistoryPromptPath(q) ==
  LET returned == IF q.has_dir
                    THEN (IF q.at_path # "absent" THEN Some(0) ELSE None)
                    ELSE SearchDirs(q.dirs, 1, None)
      state == IF returned = None THEN "absent"
               ELSE IF Val(returned) = 0 THEN q.at_path ELSE q.dirs[Val(returned)]
  IN IF returned = None THEN None
     ELSE IF state # "valid" THEN None
     ELSE Some([dir |-> Val(returned), added_ext |-> ~q.has_ext])

LookupSpeaker == Return(ProcessHistoryPromptPath(fn_in))

NextLookup == LookupSpeaker

InitLookup ==
  /\ InitWith({DefaultConfig}) /\ InitFiles
  /\ fn_in \in LookupInputs
  /\ fn_out = None

SpecLookup == InitLookup /\ [][NextLookup]_vars


\* ---- the validators called on their own (api.py:1511-1683) ----

Called(fn, outcome) ==
  Return([fn |-> fn, status |-> outcome.status, value |-> outcome.value,
          error |-> outcome.error])

SemanticReportCall == Called("generate_text_semantic_report", GenerateTextSemanticReport(fn_in))
CoarseReportCall == Called("generate_coarse_report", GenerateCoarseReport(fn_in))
FineReportCall == Called("generate_fine_report", GenerateFineReport(fn_in))
IsValidCall == Called("history_prompt_is_valid", HistoryPromptIsValidOf(fn_in))

NextValidate ==
  \/ SemanticReportCall
  \/ CoarseReportCall
  \/ FineReportCall
  \/ IsValidCall

InitValidate ==
  /\ InitWith({DefaultConfig}) /\ InitFiles
  /\ fn_in \in Bundles
  /\ fn_out = None

SpecValidate == InitValidate /\ [][NextValidate]_vars


\* ---- the speaker catalog (api.py:1442-1471) ----

\* language codes of LANG_CODE_DICT used by the model
LangCodes == {"en", "de"}

\* file names: prefix is what ^([a-z]{2})_ matches ("" when it does not match),
\* ext the end of the name
FileName(prefix, stem, ext) == [prefix |-> prefix, stem |-> stem, ext |-> ext]

\* the listings os.walk gives for a directory of the model
Listings ==
  { << >>,
    << FileName("en", "speaker_1", ".npz") >>,
    << FileName("en", "speaker_2", ".npz"), FileName("en", "speaker_1", ".npz") >>,
    << FileName("de", "speaker_1", ".npz"), FileName("en", "notes", ".txt") >>,
    << FileName("zz", "speaker_1", ".npz"), FileName("", "voice", ".npz") >>,
    << FileName("", "voice", ".npz"), FileName("de", "speaker_3", ".npz"),
       FileName("en", "speaker_4", ".npz") >> }

\* the directories of VALID_HISTORY_PROMPT_DIRS with their listings
CatalogInputs == UNION { [1..n -> Listings] : n \in 1..MaxDirs }

\* os.path.join(root, filename)
JoinPath(d, filename) == [dir |-> d, file |-> filename]

\* gather_speakers (api.py:1445-1458) on directory number d: the mapping from
\* language code to paths (a key exists once a path was appended) and the
\* unsupported files
RECURSIVE GatherSpeakers(_, _, _, _)
GatherSpeakers(listing, d, k, acc) ==
  IF k > Len(listing) THEN acc
  ELSE LET filename == listing[k]
           path == JoinPath(d, filename)
       IN GatherSpeakers(listing, d, k + 1,
            IF filename.ext # ".npz" THEN acc
            ELSE IF filename.prefix \in LangCodes
              THEN [acc EXCEPT !.speakers =
                      [c \in DOMAIN acc.speakers \cup {filename.prefix} |->
                         IF c = filename.prefix
                           THEN (IF c \in DOMAIN acc.speakers
                                   THEN Append(acc.speakers[c], path)
                                   ELSE << path >>)
                           ELSE acc.speakers[c]]]
              ELSE [acc EXCEPT !.unsupported_files = Append(@, path)])

EmptyCatalog == [speakers |-> << >>, unsupported_files |-> << >>]

\* dict.update: the entries of new replace those of old with the same key
DictUpdate(old, new) ==
  [c \in DOMAIN old \cup DOMAIN new |-> IF c \in DOMAIN new THEN new[c] ELSE old[c]]

\* list_speakers (api.py:1460-1471): the loop over the directories
RECURSIVE ListSpeakersLoop(_, _, _)
ListSpeakersLoop(dirs, d, all) ==
  IF d > Len(dirs) THEN all
  ELSE LET g == GatherSpeakers(dirs[d], d, 1, EmptyCatalog)
       IN ListSpeakersLoop(dirs, d + 1,
            [speakers |-> DictUpdate(all.speakers, g.speakers),
             unsupported_files |-> all.unsupported_files \o g.unsupported_files])

ListSpeakers == Return(ListSpeakersLoop(fn_in, 1, EmptyCatalog))

NextCatalog == ListSpeakers

InitCatalog ==
  /\ InitWith({DefaultConfig}) /\ InitFiles
  /\ fn_in \in CatalogInputs
  /\ fn_out = None

SpecCatalog == InitCatalog /\ [][NextCatalog]_vars


\* ---- the parameters generate_audio_barki passes to the stages ----

\* an entry of the kwargs dictionary read from line 482 on: the key is absent,
\* or present with the value None or with a value (written as text)
Absent == [present |-> FALSE, val |-> None]
Given(val) == [present |-> TRUE, val |-> val]
Entries(values) == {Absent, Given(None)} \cup {Given(Some(v)) : v \in values}

\* kwargs.get(key, default): the value, an option, None for Python's None
Get(entry, default) == IF entry.present THEN entry.val ELSE default
\* truth value of kwargs.get(key, None)
Truthy(val) == val # None /\ Val(val) \notin {"0", "False"}

\* the kwargs the parameters are read from.  core: the options with a default
\* or a fallback of their own, in every combination.  passed_on: the options
\* read with a None default and handed on as they are, each with a value of
\* its own; they are all absent, or all given with their value, or one of
\* them is given (with its value or with None) and the others are absent.
\* The options of passed_on vary beside a core whose options are all absent
\* and beside one whose options are all given.
StageOptions ==
  LET core == [ text_temp : Entries({"0.7"}),
                semantic_temp : Entries({"0", "0.5"}),
                semantic_allow_early_stop : Entries({"True", "False"}),
                semantic_use_kv_caching : Entries({"False"}),
                confused_travolta_mode : {Absent, Given(Some("True"))},
                waveform_temp : {Absent, Given(Some("0.6"))},
                coarse_temp : Entries({"0", "0.4"}),
                coarse_kv_caching : {Absent, Given(Some("False"))},
                fine_temp : Entries({"0.3"}) ]
      core_given == [ text_temp |-> Given(Some("0.7")),
                      semantic_temp |-> Given(Some("0.5")),
                      semantic_allow_early_stop |-> Given(Some("False")),
                      semantic_use_kv_caching |-> Given(Some("False")),
                      confused_travolta_mode |-> Absent,
                      waveform_temp |-> Given(Some("0.6")),
                      coarse_temp |-> Given(Some("0.4")),
                      coarse_kv_caching |-> Given(Some("False")),
                      fine_temp |-> Given(Some("0.3")) ]
      core_absent == [k \in DOMAIN core_given |-> Absent]
      passed_on == [ silent |-> "True",
                     semantic_top_k |-> "50",
                     semantic_top_p |-> "0.9",
                     semantic_min_eos_p |-> "0.2",
                     semantic_max_gen_duration_s |-> "14",
                     coarse_top_k |-> "40",
                     coarse_top_p |-> "0.8",
                     coarse_max_coarse_history |-> "630",
                     coarse_sliding_window_len |-> "60" ]
      none_given == [k \in DOMAIN passed_on |-> Absent]
      all_given == [k \in DOMAIN passed_on |-> Given(Some(passed_on[k]))]
      one_given(k, e) == [j \in DOMAIN passed_on |-> IF j = k THEN e ELSE Absent]
      handed == {none_given, all_given}
                  \cup {one_given(k, Given(None)) : k \in DOMAIN passed_on}
                  \cup {one_given(k, Given(Some(passed_on[k]))) : k \in DOMAIN passed_on}
      kwargs(c, h) == [k \in DOMAIN c \cup DOMAIN h |->
                        IF k \in DOMAIN c THEN c[k] ELSE h[k]]
  IN {kwargs(c, none_given) : c \in core}
       \cup {kwargs(c, h) : c \in {core_absent, core_given}, h \in handed}

\* call_with_non_none_params (api.py:456-458): the keyword arguments the
\* function is called with are those whose value is not None
CallWithNonNoneParams_PassAll(params) ==
  [key \in DOMAIN params |-> IF params[key] = None THEN "None" ELSE Val(params[key])]
CallWithNonNoneParams(params) ==
  [key \in {k \in DOMAIN params : params[k] # None} |-> Val(params[key])]

\* lines 482-525: the call of generate_text_semantic (text and history_prompt
\* are left out)
SemanticParams(kwargs) ==
  LET text_temp == Get(kwargs.text_temp, None)
      semantic_temp == IF Truthy(Get(kwargs.semantic_temp, None))
                         THEN Get(kwargs.semantic_temp, None) ELSE text_temp
      early == IF Truthy(Get(kwargs.confused_travolta_mode, Some("False")))
                 THEN Some("False")
                 ELSE Get(kwargs.semantic_allow_early_stop, Some("True"))
  IN CallWithNonNoneParams(
       [temp |-> semantic_temp,
        top_k |-> Get(kwargs.semantic_top_k, None),
        top_p |-> Get(kwargs.semantic_top_p, None),
        silent |-> Get(kwargs.silent, None),
        min_eos_p |-> Get(kwargs.semantic_min_eos_p, None),
        max_gen_duration_s |-> Get(kwargs.semantic_max_gen_duration_s, None),
        allow_early_stop |-> early,
        use_kv_caching |-> Get(kwargs.semantic_use_kv_caching, Some("True"))])

\* lines 532-576: the call of generate_coarse (x_semantic and history_prompt
\* are left out)
CoarseParams(kwargs) ==
  LET waveform_temp == Get(kwargs.waveform_temp, None)
      coarse_temp == IF Truthy(Get(kwargs.coarse_temp, None))
                       THEN Get(kwargs.coarse_temp, None) ELSE waveform_temp
  IN CallWithNonNoneParams(
       [temp |-> coarse_temp,
        top_k |-> Get(kwargs.coarse_top_k, None),
        top_p |-> Get(kwargs.coarse_top_p, None),
        silent |-> Get(kwargs.silent, None),
        max_coarse_history |-> Get(kwargs.coarse_max_coarse_history, None),
        sliding_window_len |-> Get(kwargs.coarse_sliding_window_len, None),
        use_kv_caching |-> Get(kwargs.coarse_kv_caching, Some("True"))])

\* lines 578-593: the call of generate_fine (x_coarse_gen and history_prompt
\* are left out)
FineParams(kwargs) ==
  CallWithNonNoneParams(
    [temp |-> Get(kwargs.fine_temp, Some("0.5")),
     silent |-> Get(kwargs.silent, None)])

StageCalled(stage, passed) == Return([stage |-> stage, passed |-> passed])

SemanticStageCall == StageCalled("semantic", SemanticParams(fn_in))
CoarseStageCall == StageCalled("coarse", CoarseParams(fn_in))
FineStageCall == StageCalled("fine", FineParams(fn_in))

NextParams ==
  \/ SemanticStageCall
  \/ CoarseStageCall
  \/ FineStageCall

InitParams ==
  /\ InitWith({DefaultConfig}) /\ InitFiles
  /\ fn_in \in StageOptions
  /\ fn_out = None

SpecParams == InitParams /\ [][NextParams]_vars


\* ---- generate_audio_sampling_mods_old (api.py:621-800) ----

\* the keyword arguments the function reads that decide its polls, the
\* conditioning of its stages, its write and its return value
OldInputs ==
  [ history_prompt : {NoneBundle, [src |-> "file", seg |-> 0, id |-> 1]},
    previous_segment_type : {"", "base_history", "full_generation"},
    semantic_history_only : Booleans,
    absolute_semantic_history_only : Booleans,
    absolute_semantic_history_only_every_x : {None, Some(2)},
    segment_number : {None, Some(1), Some(2)},
    hoarder_mode : Booleans,
    total_segments : {1, 2},
    force_write_segment : Booleans,
    output_full : Booleans ]

\* lines 725-743: the history prompt handed to the coarse and the fine stage
OldCoarseFineHistory(q) ==
  LET h1 == IF q.previous_segment_type = "base_history" /\ q.semantic_history_only
              THEN NoneBundle ELSE q.history_prompt
      h2 == IF q.absolute_semantic_history_only THEN NoneBundle ELSE h1
      x  == q.absolute_semantic_history_only_every_x
  IN IF ~IsNone(x) /\ Val(x) > 0 /\ ~IsNone(q.segment_number)
          /\ Val(q.segment_number) % Val(x) = 0
       THEN NoneBundle ELSE h2

\* a poll of the flag (lines 665, 707, 721, 763, 774, 784): when it is set,
\* done_cancelling = True and return None, None
OldPoll(at, next) ==
  /\ pc = at
  /\ IF gradio_try_to_cancel
       THEN /\ done_cancelling' = TRUE
            /\ fn_out' = Some([value |-> "None2"])
            /\ pc' = "returned"
       ELSE /\ pc' = next
            /\ UNCHANGED << done_cancelling, fn_out >>
  /\ Frame({"done_cancelling", "fn_out"})

\* a stage call (lines 672-703, 745-756, 767-772, 777) with the history
\* prompt it is handed
OldStage(at, stage, hp, next) ==
  /\ pc = at
  /\ stage_calls' = Append(stage_calls,
       [stage |-> stage, hp |-> hp, flag_set |-> gradio_try_to_cancel])
  /\ pc' = next
  /\ Frame({"stage_calls"})

\* lines 788-800: the segment is written when hoarder_mode is set with more
\* than one segment, or when force_write_segment is set (dry_run is not among
\* the keywords drawn, so write_one_segment sees its default); then the
\* return
OldWriteReturn ==
  /\ pc = "old_write"
  /\ disk' = disk \cup
       (IF (Val(fn_in).hoarder_mode /\ Val(fn_in).total_segments > 1)
             \/ Val(fn_in).force_write_segment
          THEN IF IsNone(Val(fn_in).segment_number)
                 THEN WriteOneSegment(TRUE, TRUE, "unnumbered", 0,
                        FALSE, Val(fn_in).hoarder_mode)
                 ELSE WriteOneSegment(TRUE, TRUE, "segment",
                        Val(Val(fn_in).segment_number),
                        FALSE, Val(fn_in).hoarder_mode)
          ELSE {})
  /\ fn_out' = Some([value |-> IF Val(fn_in).output_full
                                 THEN "full_generation, audio_arr"
                                 ELSE "audio_arr"])
  /\ pc' = "returned"
  /\ Frame({"disk", "fn_out"})

NextOld ==
  \/ SetCancel
  \/ OldPoll("start", "old_semantic")
  \/ OldStage("old_semantic", "semantic", Val(fn_in).history_prompt, "old707")
  \/ OldPoll("old707", "old721")
  \/ OldPoll("old721", "old_coarse")
  \/ OldStage("old_coarse", "coarse", OldCoarseFineHistory(Val(fn_in)), "old763")
  \/ OldPoll("old763", "old_fine")
  \/ OldStage("old_fine", "fine", OldCoarseFineHistory(Val(fn_in)), "old774")
  \/ OldPoll("old774", "old_decode")
  \/ OldStage("old_decode", "decode", NoneBundle, "old784")
  \/ OldPoll("old784", "old_write")
  \/ OldWriteReturn

InitOld ==
  /\ InitWith({DefaultConfig}) /\ InitFiles
  /\ fn_in \in {Some(q) : q \in OldInputs}
  /\ fn_out = None

SpecOld == InitOld /\ [][NextOld]_vars


\* ---- chunk_up_text (api.py:1358-1383) ----

\* the keyword arguments chunk_up_text reads; the text is given by its length
\* in characters
ChunkInputs ==
  { q \in [ text_len : 0..(MaxLen + 1),
            split_character_goal_length : 1..MaxLen,
            split_character_max_length : 2..MaxLen,
            split_character_jitter : {None, Some(-1), Some(0), Some(1)} ] :
      q.split_character_goal_length <= q.split_character_max_length }

\* kwargs.get('split_character_jitter') or 0  (line 1366)
JitterOrZero(opt) == IF IsNone(opt) THEN 0 ELSE Val(opt)
\* random.randint(a, b): any integer of a..b
RandInt(a, b) == a..b
\* lines 1368-1370: the lengths that may be handed to the splitter
Jittered_AnySign(value, jitter) ==
  IF jitter > 0 THEN RandInt(value - jitter, value + jitter)
  ELSE IF jitter < 0 THEN RandInt(value + jitter, value - jitter)
  ELSE {value}
Jittered(value, jitter) ==
  IF jitter > 0 THEN RandInt(value - jitter, value + jitter) ELSE {value}

\* text_processing.split_general_purpose (line 1375): some split of the text
\* into segments, given by their lengths, none longer than the maximum it is
\* handed
SplitGeneralPurpose(text_len, goal, max) ==
  IF text_len = 0 THEN { << >> }
  ELSE { segs \in UNION { [1..n -> 1..max] : n \in 1..text_len } :
           SumSeq(segs) = text_len }

\* chunk_up_text returns audio_segments (line 1383); goal and max are the
\* lengths handed to the splitter
ChunkUpText ==
  \E goal \in Jittered(fn_in.split_character_goal_length,
                       JitterOrZero(fn_in.split_character_jitter)) :
    \E max \in Jittered(fn_in.split_character_max_length,
                        JitterOrZero(fn_in.split_character_jitter)) :
      \E segs \in SplitGeneralPurpose(fn_in.text_len, goal, max) :
        Return([goal |-> goal, max |-> max, audio_segments |-> segs])

NextChunk == ChunkUpText

InitChunk ==
  /\ InitWith({DefaultConfig}) /\ InitFiles
  /\ fn_in \in ChunkInputs
  /\ fn_out = None

SpecChunk == InitChunk /\ [][NextChunk]_vars


\* ================================================================ claims

Terminal == pc \in {"returned", "raised"}
StabilityRuleOnly == ~cfg.seperate_prompts
BaseLoaded == cfg.history_prompt = "valid"
\* the interval the run works with, from the keyword argument
IntervalOf(c) ==
  IF c.stable_mode_interval = None THEN 1
  ELSE IF Val(c.stable_mode_interval) < 0 THEN 0 ELSE Val(c.stable_mode_interval)
HpOfCall(j) == Content(barki_calls[j].hp)
OutputOf(j) == Content(full_generation_segments[j])

\* C1: with a loaded base bundle, interval k >= 2 and the stability rule alone,
\* call i is conditioned on the base bundle when (i - 1) mod k = 0 and on the
\* output bundle of segment i - 1 otherwise.
C1_PeriodicConditioning ==
  (BaseLoaded /\ StabilityRuleOnly /\ IntervalOf(cfg) >= 2) =>
    \A j \in 1..Len(barki_calls) :
      /\ barki_calls[j].seg = j
      /\ IF (j - 1) % IntervalOf(cfg) = 0
           THEN /\ HpOfCall(j) = FileContent
                /\ HpOfCall(j) = Content(barki_calls[j].base)
           ELSE /\ HpOfCall(j) = OutputOf(j - 1)
                /\ HpOfCall(j) = GenContent(j - 1)

C1_Witness ==
  /\ BaseLoaded /\ StabilityRuleOnly /\ IntervalOf(cfg) = 3
  /\ Len(barki_calls) = 4
  /\ HpOfCall(3) = GenContent(2)
  /\ HpOfCall(4) = FileContent

\* C2: with a loaded base bundle, interval 1 and the stability rule alone, every
\* call is conditioned on the contents of the base bundle, never on a generated one.
C2_AnchoredConditioning ==
  (BaseLoaded /\ StabilityRuleOnly /\ IntervalOf(cfg) = 1) =>
    \A j \in 1..Len(barki_calls) :
      /\ HpOfCall(j) = FileContent
      /\ HpOfCall(j) = Content(barki_calls[j].base)
      /\ barki_calls[j].hp.src # "gen"

C2_Witness ==
  /\ BaseLoaded /\ StabilityRuleOnly /\ IntervalOf(cfg) = 1
  /\ Len(barki_calls) >= 3
  /\ HpOfCall(3) = FileContent

\* C3: with interval 0 and the stability rule alone, every call i > 1 is
\* conditioned on the output bundle of segment i - 1.
C3_DriftingConditioning ==
  (StabilityRuleOnly /\ IntervalOf(cfg) = 0) =>
    \A j \in 2..Len(barki_calls) :
      /\ HpOfCall(j) = OutputOf(j - 1)
      /\ HpOfCall(j) = GenContent(j - 1)

C3_Witness ==
  /\ BaseLoaded /\ StabilityRuleOnly /\ IntervalOf(cfg) = 0
  /\ Len(barki_calls) >= 3
  /\ HpOfCall(3) = GenContent(2)

C4_Scenario ==
  /\ BaseLoaded /\ StabilityRuleOnly
  /\ cfg.stable_mode_interval = Some(2) /\ cfg.nseg = 3

\* C4 as stated: 3 segments, interval 2, loaded base: the calls are conditioned
\* on [base, base, output of the preceding segment] and the counter is back at the
\* interval after segment 2.
C4_AsStated ==
  (C4_Scenario /\ Len(barki_calls) = 3 /\ Len(roll_log) >= 2) =>
    /\ << HpOfCall(1), HpOfCall(2), HpOfCall(3) >>
         = << FileContent, FileContent, GenContent(2) >>
    /\ roll_log[2].counter = Some(2)

\* C4 amended: 3 segments, interval 2, loaded base: the calls are conditioned on
\* [base, output of segment 1, base]; the counter is 1 after segment 1 and back
\* at the interval after segment 2.
C4_ThreeSegmentsIntervalTwo ==
  C4_Scenario =>
    /\ \A j \in 1..Len(barki_calls) :
         HpOfCall(j) = << FileContent, GenContent(1), FileContent >>[j]
    /\ Len(roll_log) >= 1 => roll_log[1].counter = Some(1)
    /\ Len(roll_log) >= 2 => roll_log[2].counter = Some(2)

C4_Witness ==
  /\ C4_Scenario
  /\ pc = "returned" /\ result = ReturnArtifacts
  /\ Len(barki_calls) = 3 /\ Len(roll_log) = 3


\* positions of the run at which a stage of the current segment has not completed
StagePending == {"check1007", "bk505", "semantic", "bk528", "bk542", "coarse",
                 "bk584", "fine", "bk595", "decode"}
FinalFiles == {f \in disk : f.tag = "final"}

\* C5 as stated: when the flag is set before a stage of a segment completes, no
\* file of the run is on disk at return and the run returns (None, None, None).
C5_AsStated ==
  (Terminal /\ cancel_point \in StagePending) =>
    /\ disk = {}
    /\ result.value = "None3"

\* C5 amended: when the flag is set before a stage of a segment completes, the
\* run returns (None, None, None) and the final artifact is never written; with
\* hoarder mode off no file is on disk; in hoarder mode the files written before
\* the flag was seen stay: the base_history files and the files of the segments
\* completed earlier.
C5_CancelledRunArtifacts ==
  (Terminal /\ cancel_point \in StagePending) =>
    /\ result = ReturnNone3("cancelled")
    /\ final_artifact = None
    /\ FinalFiles = {}
    /\ ~cfg.hoarder_mode => disk = {}
    /\ \A f \in disk :
         \/ f.tag = "base_history" /\ BaseLoaded
         \/ /\ f.tag = "segment" /\ cfg.nseg > 1
            /\ f.seg \in 1..Len(full_generation_segments)

C5_Witness ==
  /\ Terminal /\ cancel_point = "fine"
  /\ cfg.hoarder_mode
  /\ [kind |-> "wav", tag |-> "segment", seg |-> 1] \in disk
  /\ Len(full_generation_segments) = 1
  /\ result = ReturnNone3("cancelled")

StageOrder == << "semantic", "coarse", "fine", "decode" >>

\* C6: generate_audio_barki polls the flag before the semantic stage and between
\* consecutive stages; a stage is only called after a poll that saw the flag clear;
\* a poll that sees it set ends the call: no later stage, no file of the segment,
\* (None, None) returned without a bundle.
C6_BarkiPollsBetweenStages ==
  /\ \A n \in 1..Len(stage_calls) :
       /\ stage_calls[n].stage = StageOrder[((n - 1) % 4) + 1]
       /\ stage_calls[n].seg = ((n - 1) \div 4) + 1
       /\ stage_calls[n].polls >= 1
       /\ ~stage_calls[n].last_poll_saw
  /\ bk.returned = "cancelled" =>
       /\ IsNoneBundle(bk.full_generation)
       /\ Len(stage_calls) = bk.stages_at_return
       /\ done_cancelling
       /\ ~\E f \in disk : f.tag = "segment" /\ f.seg = bk.segment_number

C6_Witness ==
  /\ bk.returned = "cancelled"
  /\ cfg.hoarder_mode /\ cfg.nseg > 1
  /\ bk.segment_number = 2
  /\ Len(stage_calls) = 7
  /\ stage_calls[7].flag_set
  /\ pc = "returned"

FlaggedStageCalls == {n \in 1..Len(stage_calls) : stage_calls[n].flag_set}

EveryX == cfg.absolute_semantic_history_only_every_x
EveryXFires(seg) == EveryX # None /\ Val(EveryX) > 0 /\ seg % Val(EveryX) = 0
BaseOnlyFires(seg) ==
  cfg.semantic_history_only /\ barki_calls[seg].previous_segment_type = "base_history"
ModelStages == {"semantic", "coarse", "fine"}

\* C8 as stated: with absolute_semantic_history_only the conditioning of the call
\* is none at every stage of every segment, and with every_x = X > 0 it is none
\* at every stage of the calls whose segment number is divisible by X.
C8_AsStated ==
  \A n \in 1..Len(stage_calls) :
    (stage_calls[n].stage \in ModelStages
       /\ (cfg.absolute_semantic_history_only \/ EveryXFires(stage_calls[n].seg)))
    => IsNoneBundle(stage_calls[n].hp)

\* C8 amended: the overrides act on the coarse and the fine stage only: these
\* receive none on every segment with absolute_semantic_history_only, and with
\* every_x = X > 0 exactly on the segments divisible by X (unless another rule
\* made it none); the semantic stage always receives the history prompt of the call.
C8_OverridesCoarseFine ==
  \A n \in 1..Len(stage_calls) :
    LET st == stage_calls[n]
        call == barki_calls[st.seg]
    IN /\ st.stage = "semantic" => st.hp = call.hp
       /\ st.stage \in {"coarse", "fine"} =>
            /\ cfg.absolute_semantic_history_only => IsNoneBundle(st.hp)
            /\ EveryXFires(st.seg) => IsNoneBundle(st.hp)
            /\ (~cfg.absolute_semantic_history_only /\ ~EveryXFires(st.seg)
                  /\ ~BaseOnlyFires(st.seg)) => st.hp = call.hp

C8_Witness ==
  /\ EveryX = Some(2) /\ ~cfg.absolute_semantic_history_only
  /\ ~cfg.semantic_history_only
  /\ Len(stage_calls) >= 6
  /\ stage_calls[2].stage = "coarse" /\ ~IsNoneBundle(stage_calls[2].hp)
  /\ stage_calls[5].stage = "semantic" /\ ~IsNoneBundle(stage_calls[5].hp)
  /\ stage_calls[6].stage = "coarse" /\ IsNoneBundle(stage_calls[6].hp)

StagesOf(seg, stage) ==
  {n \in 1..Len(stage_calls) : stage_calls[n].seg = seg /\ stage_calls[n].stage = stage}
NoOverrideConfigured ==
  /\ ~cfg.semantic_history_only /\ ~cfg.absolute_semantic_history_only
  /\ (EveryX = None \/ EveryX = Some(0))

\* C9 as stated: in one call the semantic, coarse and fine stage receive the same
\* conditioning, for every combination of option flags.
C9_AsStated ==
  \A n \in 1..Len(stage_calls), m \in 1..Len(stage_calls) :
    (stage_calls[n].seg = stage_calls[m].seg
       /\ stage_calls[n].stage \in ModelStages /\ stage_calls[m].stage \in ModelStages)
    => stage_calls[n].hp = stage_calls[m].hp

\* C9 amended: in one call the coarse and the fine stage receive the same
\* conditioning, which is the semantic stage's conditioning or none; it is the
\* semantic stage's conditioning whenever none of semantic_history_only,
\* absolute_semantic_history_only and absolute_semantic_history_only_every_x is set.
C9_StagesShareConditioning ==
  \A seg \in 1..Len(barki_calls) :
    \A s \in StagesOf(seg, "semantic") :
      /\ \A c \in StagesOf(seg, "coarse") :
           /\ stage_calls[c].hp \in {stage_calls[s].hp, NoneBundle}
           /\ NoOverrideConfigured => stage_calls[c].hp = stage_calls[s].hp
           /\ \A f \in StagesOf(seg, "fine") : stage_calls[f].hp = stage_calls[c].hp

C9_Witness ==
  /\ Len(stage_calls) >= 3
  /\ stage_calls[1].stage = "semantic" /\ ~IsNoneBundle(stage_calls[1].hp)
  /\ stage_calls[2].stage = "coarse" /\ IsNoneBundle(stage_calls[2].hp)
  /\ stage_calls[3].stage = "fine" /\ IsNoneBundle(stage_calls[3].hp)

\* the rolling state after segment j as a function of the interval, the base
\* argument and the segment outputs alone
ExpectedBase == IF BaseLoaded THEN FileContent ELSE GenContent(1)
ExpectedRolling(j) ==
  IF IntervalOf(cfg) = 0 THEN GenContent(j)
  ELSE IF IntervalOf(cfg) = 1 THEN ExpectedBase
  ELSE IF j % IntervalOf(cfg) = 0 THEN ExpectedBase ELSE GenContent(j)
ExpectedCounter(j) ==
  IF IntervalOf(cfg) < 2 THEN None
  ELSE Some(IntervalOf(cfg) - (j % IntervalOf(cfg)))

\* C10: the overrides leave the rolling state alone: after each segment,
\* history_prompt_for_next_segment, the counter and base_history have the values
\* fixed by the interval, the base argument and the segment outputs, whatever
\* the override options are.
C10_OverridesLeaveRollingState ==
  \A j \in 1..Len(roll_log) :
    /\ roll_log[j].seg = j
    /\ Content(roll_log[j].rolling) = ExpectedRolling(j)
    /\ Content(roll_log[j].base) = ExpectedBase
    /\ roll_log[j].counter = ExpectedCounter(j)

C10_Witness ==
  /\ cfg.absolute_semantic_history_only /\ EveryX = Some(1)
  /\ BaseLoaded /\ IntervalOf(cfg) = 3
  /\ Len(roll_log) = 4
  /\ Content(roll_log[3].rolling) = FileContent
  /\ Content(roll_log[4].rolling) = GenContent(4)
  /\ IsNoneBundle(stage_calls[14].hp) /\ stage_calls[14].stage = "coarse"
  /\ ~IsNoneBundle(barki_calls[4].hp)

\* ------------------------------------------------------------------ C11-C13

Alternation == cfg.seperate_prompts /\ cfg.seperate_prompts_flipper
SeparateOnly == cfg.seperate_prompts /\ ~cfg.seperate_prompts_flipper
Odd(n) == n % 2 = 1

\* C11: in alternation mode (seperate_prompts and seperate_prompts_flipper) the
\* flag history_prompt_flipper changes value at every segment (it is set exactly
\* while an odd-numbered segment is in progress), every odd-numbered segment is
\* called with the rolling conditioning of that moment (from the third segment
\* on: the one stored after the previous segment) and every even-numbered
\* segment is called with no conditioning.
C11_AlternationParity ==
  Alternation =>
    /\ (pc \in StagePending \cup {"after_barki"})
          => history_prompt_flipper = Odd(kw.segment_number)
    /\ \A j \in 1..Len(barki_calls) :
         IF Odd(j)
           THEN /\ barki_calls[j].hp = barki_calls[j].rolling
                /\ j > 1 => barki_calls[j].hp = roll_log[j - 1].rolling
           ELSE IsNoneBundle(barki_calls[j].hp)

C11_Witness ==
  /\ Alternation /\ BaseLoaded /\ IntervalOf(cfg) = 0
  /\ Len(barki_calls) = 4
  /\ HpOfCall(1) = FileContent
  /\ IsNoneBundle(barki_calls[2].hp)
  /\ HpOfCall(3) = GenContent(2)
  /\ IsNoneBundle(barki_calls[4].hp)
  /\ ~history_prompt_flipper

\* C12, as claimed: in alternation mode no segment decrements or resets the
\* counter, which keeps the value it was given before the loop.
C12_AsStated ==
  Alternation =>
    \A j \in 1..Len(roll_log) : roll_log[j].counter = InitialCounter(Whole(IntervalOf(cfg)))

\* C12, amended: in alternation mode the stability rule still runs after every
\* segment: the counter is decremented and reset as it is without alternation,
\* and the rolling conditioning the rule stores after segment j - 1 is what the
\* odd-numbered segment j >= 3 is called with.  Alternation only replaces the
\* conditioning of the even-numbered segments by none.
C12_AlternationKeepsStabilityRule ==
  Alternation =>
    /\ \A j \in 1..Len(roll_log) :
         /\ roll_log[j].counter = ExpectedCounter(j)
         /\ Content(roll_log[j].rolling) = ExpectedRolling(j)
    /\ \A j \in 1..Len(barki_calls) :
         /\ barki_calls[j].counter =
              (IF j = 1 THEN InitialCounter(Whole(IntervalOf(cfg))) ELSE ExpectedCounter(j - 1))
         /\ (Odd(j) /\ j > 1) => HpOfCall(j) = ExpectedRolling(j - 1)

C12_Witness ==
  /\ Alternation /\ BaseLoaded /\ IntervalOf(cfg) = 2
  /\ Len(barki_calls) = 3 /\ Len(roll_log) = 3
  /\ roll_log[1].counter = Some(1)
  /\ roll_log[2].counter = Some(2)
  /\ HpOfCall(3) = FileContent
  /\ Content(roll_log[3].rolling) = GenContent(3)

\* C13: with seperate_prompts set and seperate_prompts_flipper clear, every
\* segment's call finds the rolling conditioning none and receives no
\* conditioning, in kwargs and in every model stage, for every interval and
\* with or without a loaded base bundle.
C13_SeparatePromptsDropConditioning ==
  SeparateOnly =>
    /\ \A j \in 1..Len(barki_calls) :
         /\ IsNoneBundle(barki_calls[j].rolling)
         /\ IsNoneBundle(barki_calls[j].hp)
    /\ \A n \in 1..Len(stage_calls) : IsNoneBundle(stage_calls[n].hp)
    /\ (pc \in StagePending) => IsNoneBundle(history_prompt_for_next_segment)

C13_Witness ==
  /\ SeparateOnly /\ BaseLoaded /\ IntervalOf(cfg) = 1
  /\ Len(barki_calls) = 3 /\ Len(roll_log) = 2
  /\ Content(roll_log[2].rolling) = FileContent
  /\ IsNoneBundle(barki_calls[3].rolling)
  /\ IsNoneBundle(barki_calls[3].hp)
  /\ Len(stage_calls) = 9

\* ------------------------------------------------------------------ C14-C19

\* the run names a base conditioning that is not found or does not pass
\* validation, the file on which validation raises included
Unresolvable == cfg.history_prompt \in {"missing", "invalid", "raising"}
NothingGenerated ==
  /\ barki_calls = << >> /\ stage_calls = << >>
  /\ disk = {} /\ final_artifact = None

\* C14, as claimed: a run given a base conditioning name that cannot be resolved
\* or is invalid ends with (None, None, None) without the segmenter having been
\* invoked, without a pipeline stage and without an artifact.
C14_AsStated ==
  (Unresolvable /\ Terminal) =>
    /\ result.status = "returned" /\ result.value = "None3"
    /\ segmenter_calls = 0
    /\ NothingGenerated

\* C15: a run with dry_run or text_splits_only set makes no pipeline call, calls
\* no stage and writes no audio, bundle or log file.
C15_DryRunGeneratesNothing ==
  (cfg.dry_run \/ cfg.text_splits_only) => NothingGenerated

C15_Witness ==
  /\ cfg.dry_run /\ ~cfg.text_splits_only /\ cfg.hoarder_mode /\ BaseLoaded
  /\ cfg.nseg = 3 /\ i = 3
  /\ pc = "returned" /\ result = ReturnArtifacts
  /\ kw.history_prompt_string

\* C16, as claimed: a run whose segmenter returns zero segments returns
\* normally, having called no stage and written nothing.
C16_EmptyRunReturns ==
  (cfg.nseg = 0 /\ Terminal) =>
    /\ result.status = "returned"
    /\ NothingGenerated

\* C17, as claimed: with text_splits_only the run returns the list of segments.
C17_AsStated ==
  (cfg.text_splits_only /\ Terminal) =>
    /\ result.status = "returned" /\ result.value = "segments"

\* C17, amended: with text_splits_only the run invokes the segmenter once and
\* returns (None, None, None) right after; the segments are not part of the
\* returned value.
C17_SplitsOnlyReturnsNone ==
  (cfg.text_splits_only /\ Terminal) =>
    /\ result = ReturnNone3("text_splits_only")
    /\ segmenter_calls = 1 /\ audio_segments = cfg.nseg
    /\ ~done_cancelling

C17_Witness ==
  /\ cfg.text_splits_only /\ ~cfg.dry_run /\ cfg.nseg = 3 /\ BaseLoaded
  /\ pc = "returned" /\ result.value = "None3"
  /\ segmenter_calls = 1 /\ audio_segments = 3

IsSegmentAudio(a) == a.kind = "audio"
SegmentAudios(n) == [j \in 1..n |-> AudioOf(j)]
Successful == pc = "returned" /\ result = ReturnArtifacts /\ ~cfg.dry_run

\* C18, as claimed: the final audio of a successful run that is not a dry run
\* is the concatenation of the audio buffers of segments 1..N and nothing
\* else, and the bundle written with it is the output of segment 1.
C18_AsStated ==
  (Successful /\ cfg.nseg >= 1) =>
    /\ final_artifact # None
    /\ Val(final_artifact).audio = SegmentAudios(cfg.nseg)
    /\ Content(Val(final_artifact).bundle) = GenContent(1)

\* C18, amended: a run that is not a dry run and returns its artifacts over N >= 1
\* segments has written one final audio file and one final bundle file; the
\* audio it passed to the write is the concatenation of the accumulated buffers,
\* in which the buffers of segments 1..N appear in this order (with no other
\* buffer when no silence is configured), and the bundle is the output of
\* segment 1.
C18_FinalArtifact ==
  (Successful /\ cfg.nseg >= 1) =>
    /\ final_artifact # None
    /\ Val(final_artifact).audio = audio_arr_segments
    /\ SelectSeq(Val(final_artifact).audio, IsSegmentAudio) = SegmentAudios(cfg.nseg)
    /\ ~cfg.add_silence_between_segments
         => Val(final_artifact).audio = SegmentAudios(cfg.nseg)
    /\ Val(final_artifact).bundle = full_generation_segments[1]
    /\ Content(Val(final_artifact).bundle) = GenContent(1)
    /\ [kind |-> "wav", tag |-> "final", seg |-> 0] \in disk
    /\ [kind |-> "npz", tag |-> "final", seg |-> 0] \in disk

C18_Witness ==
  /\ Successful /\ cfg.nseg = 3 /\ ~cfg.add_silence_between_segments
  /\ IntervalOf(cfg) = 0 /\ BaseLoaded
  /\ Val(final_artifact).audio = << AudioOf(1), AudioOf(2), AudioOf(3) >>
  /\ Content(Val(final_artifact).bundle) = GenContent(1)
  /\ Content(full_generation_segments[3]) = GenContent(3)

\* C19, as claimed: with add_silence_between_segments the accumulated audio of
\* a completed run over N segments is seg1, silence, seg2, ..., silence, segN:
\* N - 1 silence buffers, and a segment's audio at the end.
C19_SilenceOnlyBetween ==
  (Successful /\ cfg.add_silence_between_segments /\ cfg.nseg >= 1) =>
    /\ Len(audio_arr_segments) = 2 * cfg.nseg - 1
    /\ \A n \in 1..Len(audio_arr_segments) :
         audio_arr_segments[n] =
           (IF Odd(n) THEN AudioOf((n + 1) \div 2) ELSE Silence)

\* ---------------------------------------------------------------------- C20

\* C20, as claimed: whatever sequence of save_as_prompt, write_seg_npz,
\* write_seg_wav, log_params and write_one_segment calls is made, no write goes
\* to a path that already holds a file.
C20_NoOverwrite == overwritten = {}

\* ------------------------------------------------------------------ C21-C22

\* position of a result in the family base, base_1, base_2, ...
SuffixIndex(r) == IF r.path = r.base THEN 0 ELSE r.path[Len(SplitExt(r.base).name) + 1].n
Candidate(base, c) ==
  IF c = 0 THEN base
  ELSE SplitExt(base).name \o << SuffixTok(c) >> \o SplitExt(base).ext
\* the file allocated by call j was on disk when call k was made
WrittenBefore(j, k) == alloc_log[j].path \in alloc_log[k].before
SameBase(j, k) == alloc_log[j].base = alloc_log[k].base

\* C21, as claimed: successive calls for one base path return pairwise distinct
\* paths.
C21_AsStated ==
  \A j, k \in 1..Len(alloc_log) :
    (j < k /\ SameBase(j, k)) => alloc_log[j].path # alloc_log[k].path

\* C21, amended: every call returns a path that holds no file at that moment,
\* and two calls for one base path return distinct paths, the later one with
\* the larger suffix, when the file of the earlier one was written before the
\* later call; two calls with no write in between return the same path.
C21_DistinctWhenWritten ==
  \A j, k \in 1..Len(alloc_log) :
    /\ alloc_log[k].path \notin alloc_log[k].before
    /\ (j < k /\ SameBase(j, k) /\ WrittenBefore(j, k))
         => /\ alloc_log[j].path # alloc_log[k].path
            /\ SuffixIndex(alloc_log[j]) < SuffixIndex(alloc_log[k])
    /\ (j < k /\ SameBase(j, k) /\ alloc_log[j].before = alloc_log[k].before)
         => alloc_log[j].path = alloc_log[k].path

C21_Witness ==
  /\ Len(alloc_log) = 3
  /\ \A j \in 1..3 : alloc_log[j].base = << Tok("a"), Tok(".wav") >>
  /\ alloc_log[1].before = { << Tok("a"), Tok(".wav") >> }
  /\ WrittenBefore(1, 2) /\ WrittenBefore(2, 3)
  /\ SuffixIndex(alloc_log[1]) = 1
  /\ SuffixIndex(alloc_log[2]) = 2
  /\ SuffixIndex(alloc_log[3]) = 3

\* C22: a call returns the path itself when no file exists there, else
\* name_c.ext for the smallest c >= 1 where no file exists; the returned path
\* never holds a file; and on a disk that holds none of the family at first,
\* calls for one base path that are each followed by the write return
\* path, path_1, path_2, ... in this order.
C22_SmallestFreeSuffix ==
  /\ \A k \in 1..Len(alloc_log) :
       LET r == alloc_log[k]
       IN /\ r.path \notin r.before
          /\ r.path = Candidate(r.base, SuffixIndex(r))
          /\ \A d \in 0..(SuffixIndex(r) - 1) : Candidate(r.base, d) \in r.before
  /\ ( /\ \A k \in 1..Len(alloc_log) : SameBase(1, k)
       /\ \A k \in 1..(Len(alloc_log) - 1) : WrittenBefore(k, k + 1)
       /\ alloc_log # << >>
       /\ \A c \in 0..MaxAllocs :
            Candidate(alloc_log[1].base, c) \notin alloc_log[1].before )
     => \A k \in 1..Len(alloc_log) :
          alloc_log[k].path = Candidate(alloc_log[1].base, k - 1)

C22_Witness ==
  /\ Len(alloc_log) = 3
  /\ alloc_log[1].base = << Tok("a"), Tok(".wav") >>
  /\ alloc_log[1].before =
       { << Tok("a"), Tok(".wav") >>, << Tok("a"), SuffixTok(2), Tok(".wav") >> }
  /\ SuffixIndex(alloc_log[1]) = 1
  /\ alloc_log[2].base = << Tok("a") >> /\ alloc_log[2].path = << Tok("a") >>
  /\ alloc_log[3].base = << Tok("a"), Tok(".wav") >>
  /\ WrittenBefore(1, 3)
  /\ SuffixIndex(alloc_log[3]) = 3

\* ---------------------------------------------------------------------- C23

DirsWithFile == {k \in DOMAIN fn_in.dirs : fn_in.dirs[k] # "absent"}
BareName == ~fn_in.has_dir

\* C23, as claimed: for a bare name, a returned path lies in the earliest
\* directory of the list that holds a file of that name.
C23_FirstDirectoryWins ==
  (fn_out # None /\ BareName /\ Val(fn_out) # None) =>
    /\ Val(Val(fn_out)).dir \in DirsWithFile
    /\ \A k \in DirsWithFile : Val(Val(fn_out)).dir <= k

\* ------------------------------------------------------------------ C24-C26

\* C24: a run whose named base bundle does not pass validation (or cannot be
\* found) never loads it: no pipeline call and no stage receives a bundle read
\* from a file, base_history and the rolling conditioning never hold one, and
\* a run whose base bundle is invalid calls no stage at all.
C24_InvalidBundleNeverUsed ==
  ~BaseLoaded =>
    /\ \A n \in 1..Len(stage_calls) : stage_calls[n].hp.src # "file"
    /\ \A j \in 1..Len(barki_calls) :
         /\ barki_calls[j].hp.src # "file"
         /\ barki_calls[j].rolling.src # "file"
         /\ barki_calls[j].base.src # "file"
    /\ base_history.src # "file"
    /\ history_prompt_for_next_segment.src # "file"
    /\ cfg.history_prompt = "invalid" => (stage_calls = << >> /\ barki_calls = << >>)

C24_Witness ==
  /\ cfg.history_prompt = "invalid" /\ cfg.nseg = 3 /\ IntervalOf(cfg) = 1
  /\ pc = "returned" /\ result = ReturnNone3("speaker_not_found")
  /\ stage_calls = << >> /\ IsNoneBundle(base_history)
  /\ cancel_point = "none"

IsValidReturned ==
  /\ fn_out # None
  /\ Val(fn_out).fn = "history_prompt_is_valid"
  /\ Val(fn_out).status = "returned"

\* the conditions the claim lists
ClaimedValid(b) ==
  /\ Len(b.semantic_prompt.shape) = 1
  /\ Len(b.coarse_prompt.shape) = 2
  /\ b.coarse_prompt.shape[1] = N_COARSE_CODEBOOKS
  /\ Len(b.fine_prompt.shape) = 2
  /\ b.fine_prompt.shape[1] = N_FINE_CODEBOOKS
  /\ b.fine_prompt.shape[2] = b.coarse_prompt.shape[2]
  /\ Size(b.semantic_prompt.shape) > 0
       => (b.semantic_prompt.lo >= 0 /\ b.semantic_prompt.hi < SEMANTIC_VOCAB_SIZE)
  /\ Size(b.coarse_prompt.shape) > 0
       => (b.coarse_prompt.lo >= 0 /\ b.coarse_prompt.hi < CODEBOOK_SIZE)
  /\ Size(b.fine_prompt.shape) > 0
       => (b.fine_prompt.lo >= 0 /\ b.fine_prompt.hi < CODEBOOK_SIZE)

\* C25, as claimed: when history_prompt_is_valid returns, it returns true
\* exactly for the bundles that meet the listed conditions, the same T for
\* coarse_prompt and fine_prompt among them.
C25_AsStated ==
  IsValidReturned => Val(fn_out).value = ClaimedValid(fn_in)

\* C26, as claimed: on a bundle of integer arrays each of the three reports and
\* history_prompt_is_valid returns; none raises.
C26_ValidationNeverRaises ==
  fn_out # None => Val(fn_out).status = "returned"

\* ---------------------------------------------------------------------- C27

Occurrences(seq, x) == Cardinality({n \in DOMAIN seq : seq[n] = x})

\* C27, as claimed: after list_speakers every .npz file found under a directory
\* is listed exactly once: under its language code when its name starts with a
\* known code and an underscore, among the unsupported files otherwise.
C27_EveryFileListedOnce ==
  fn_out # None =>
    \A d \in DOMAIN fn_in : \A k \in DOMAIN fn_in[d] :
      LET f == fn_in[d][k]
          path == JoinPath(d, f)
          r == Val(fn_out)
      IN f.ext = ".npz" =>
           IF f.prefix \in LangCodes
             THEN /\ f.prefix \in DOMAIN r.speakers
                  /\ Occurrences(r.speakers[f.prefix], path) = 1
                  /\ Occurrences(r.unsupported_files, path) = 0
             ELSE /\ Occurrences(r.unsupported_files, path) = 1
                  /\ \A c \in DOMAIN r.speakers : Occurrences(r.speakers[c], path) = 0

\* ---------------------------------------------------------------------- C28

\* the kwargs entries a stage parameter is taken from
SourcesOf(stage, key) ==
  IF key = "silent" THEN {"silent"}
  ELSE IF stage = "semantic"
    THEN (IF key = "temp" THEN {"text_temp", "semantic_temp"}
          ELSE IF key = "top_k" THEN {"semantic_top_k"}
          ELSE IF key = "top_p" THEN {"semantic_top_p"}
          ELSE IF key = "min_eos_p" THEN {"semantic_min_eos_p"}
          ELSE IF key = "max_gen_duration_s" THEN {"semantic_max_gen_duration_s"}
          ELSE IF key = "allow_early_stop" THEN {"semantic_allow_early_stop"}
          ELSE {"semantic_use_kv_caching"})
  ELSE IF stage = "coarse"
    THEN (IF key = "temp" THEN {"waveform_temp", "coarse_temp"}
          ELSE IF key = "top_k" THEN {"coarse_top_k"}
          ELSE IF key = "top_p" THEN {"coarse_top_p"}
          ELSE IF key = "max_coarse_history" THEN {"coarse_max_coarse_history"}
          ELSE IF key = "sliding_window_len" THEN {"coarse_sliding_window_len"}
          ELSE {"coarse_kv_caching"})
  ELSE {"fine_temp"}
Supplied(entry) == entry.present /\ entry.val # None
\* the parameters a stage is handed from an option read with a None default
NoneDefaultParams(stage) ==
  IF stage = "semantic"
    THEN {"top_k", "top_p", "silent", "min_eos_p", "max_gen_duration_s"}
  ELSE IF stage = "coarse"
    THEN {"top_k", "top_p", "silent", "max_coarse_history", "sliding_window_len"}
  ELSE {"silent"}
\* the temp option of a stage and the option it falls back on
StageTemp(stage) == IF stage = "semantic" THEN "semantic_temp" ELSE "coarse_temp"
FallbackTemp(stage) == IF stage = "semantic" THEN "text_temp" ELSE "waveform_temp"

\* C28, as claimed: a parameter reaches a stage only when the caller supplied
\* one of the options it is taken from with a value other than None.
C28_AsStated ==
  fn_out # None =>
    \A key \in DOMAIN Val(fn_out).passed :
      \E o \in SourcesOf(Val(fn_out).stage, key) : Supplied(fn_in[o])

\* C28, amended: no parameter is passed with the value None.  A parameter read
\* with a None default (top_k, top_p, silent, min_eos_p, max_gen_duration_s,
\* max_coarse_history, sliding_window_len) is passed exactly when its option
\* is supplied, with the option's value.  The temp of the semantic and of the
\* coarse stage is semantic_temp / coarse_temp when that option is supplied
\* and is not 0, otherwise text_temp / waveform_temp when that is supplied,
\* and is left out otherwise.  But an absent semantic_allow_early_stop,
\* semantic_use_kv_caching or coarse_kv_caching is passed as True and an absent
\* fine_temp as 0.5 (they are left out only when given as None), and
\* confused_travolta_mode passes allow_early_stop False.
C28_SparseExceptDefaults ==
  fn_out # None =>
    LET stage == Val(fn_out).stage
        passed == Val(fn_out).passed
        has(key) == key \in DOMAIN passed
        option(key) == fn_in[CHOOSE o \in SourcesOf(stage, key) : TRUE]
        own == fn_in[StageTemp(stage)]
        fallback == fn_in[FallbackTemp(stage)]
    IN /\ \A key \in DOMAIN passed : passed[key] # "None"
       /\ \A key \in NoneDefaultParams(stage) :
            /\ has(key) <=> Supplied(option(key))
            /\ has(key) => passed[key] = Val(option(key).val)
       /\ stage # "fine" =>
            IF Supplied(own) /\ Val(own.val) # "0"
              THEN has("temp") /\ passed["temp"] = Val(own.val)
            ELSE IF Supplied(fallback)
              THEN has("temp") /\ passed["temp"] = Val(fallback.val)
            ELSE ~has("temp")
       /\ stage = "fine" =>
            /\ has("temp") <=> fn_in.fine_temp # Given(None)
            /\ fn_in.fine_temp = Absent => passed["temp"] = "0.5"
            /\ Supplied(fn_in.fine_temp) => passed["temp"] = Val(fn_in.fine_temp.val)
       /\ stage = "coarse" =>
            /\ has("use_kv_caching")
            /\ fn_in.coarse_kv_caching = Absent => passed["use_kv_caching"] = "True"
       /\ stage = "semantic" =>
            /\ has("use_kv_caching") <=> fn_in.semantic_use_kv_caching # Given(None)
            /\ fn_in.semantic_use_kv_caching = Absent
                 => passed["use_kv_caching"] = "True"
            /\ IF fn_in.confused_travolta_mode # Absent
                 THEN has("allow_early_stop") /\ passed["allow_early_stop"] = "False"
                 ELSE /\ has("allow_early_stop")
                           <=> fn_in.semantic_allow_early_stop # Given(None)
                      /\ fn_in.semantic_allow_early_stop = Absent
                           => passed["allow_early_stop"] = "True"

\* a coarse call whose coarse_temp overrides waveform_temp, with the
\* coarse_kv_caching option and every option of a None default absent
C28_Witness ==
  /\ fn_out # None /\ Val(fn_out).stage = "coarse"
  /\ fn_in.coarse_temp = Given(Some("0.4"))
  /\ fn_in.waveform_temp = Given(Some("0.6"))
  /\ fn_in.coarse_kv_caching = Absent
  /\ fn_in.coarse_top_k = Absent /\ fn_in.silent = Absent
  /\ DOMAIN Val(fn_out).passed = {"temp", "use_kv_caching"}
  /\ Val(fn_out).passed["temp"] = "0.4"
  /\ Val(fn_out).passed["use_kv_caching"] = "True"


\* ------------------------------------------------ C29: the unmatched interval

\* the run returned (None, None, None) from the else branch of the stability
\* interval rule (lines 1073-1075)
IntervalRejected == pc = "returned" /\ result = ReturnNone3("bad_interval")

\* C29: when the stability interval matches none of the cases 0, 1, >= 2, the
\* run fails before any generation: no pipeline stage has been invoked and no
\* artifact has been written when the failure is returned.
C29_FailsBeforeGeneration ==
  IntervalRejected =>
    /\ barki_calls = << >> /\ stage_calls = << >>
    /\ disk = {} /\ final_artifact = None


\* --------------------------------------------------- C30: the one-segment run

FilesOfKind(kind) == {f \in disk : f.kind = kind}
\* a run over one segment that ended, was not a dry run and was not cancelled:
\* the caller never set the flag (the run itself sets it when the history
\* prompt cannot be used, lines 899-900)
OneSegmentRun ==
  /\ Terminal /\ cfg.nseg = 1
  /\ ~cfg.dry_run /\ ~cfg.text_splits_only
  /\ cancel_point = "none"

\* C30, as claimed: a non-cancelled, non-dry run over exactly one segment
\* performs exactly one pipeline invocation and writes exactly one waveform
\* file, plus exactly one log file when hoarder mode is set and none otherwise.
C30_AsStated ==
  OneSegmentRun =>
    /\ Len(barki_calls) = 1
    /\ Cardinality(FilesOfKind("wav")) = 1
    /\ Cardinality(FilesOfKind("log")) = (IF cfg.hoarder_mode THEN 1 ELSE 0)

\* C30, amended: such a run whose history prompt, if one is named, resolves to
\* a valid bundle performs exactly one pipeline invocation and writes exactly
\* one waveform file, the final one; in hoarder mode it writes the log file of
\* the final output and, when a history prompt is named, a second log file
\* for base_history; without hoarder mode it writes no log file.  When the
\* named history prompt is missing or invalid the run invokes nothing and
\* writes nothing.
C30_OneSegmentRun ==
  OneSegmentRun =>
    IF Unresolvable
      THEN NothingGenerated
      ELSE /\ Len(barki_calls) = 1
           /\ FilesOfKind("wav") = {[kind |-> "wav", tag |-> "final", seg |-> 0]}
           /\ FilesOfKind("log") =
                (IF cfg.hoarder_mode
                   THEN {[kind |-> "log", tag |-> "final", seg |-> 0]}
                        \cup (IF cfg.history_prompt = "valid"
                                THEN {[kind |-> "log", tag |-> "base_history", seg |-> 0]}
                                ELSE {})
                   ELSE {})
C30_Witness ==
  /\ OneSegmentRun /\ result = ReturnArtifacts
  /\ cfg.hoarder_mode /\ cfg.history_prompt = "valid"
  /\ Len(barki_calls) = 1
  /\ Cardinality(FilesOfKind("log")) = 2


\* ------------------------------------------------ C31: the segment maximum

ConfiguredMax == fn_in.split_character_max_length
ChunkJitter == JitterOrZero(fn_in.split_character_jitter)
ChunkReturned == fn_out # None
SegmentLengths == {Val(fn_out).audio_segments[j] : j \in DOMAIN Val(fn_out).audio_segments}

\* C31, as claimed: with a splitter that honours the maximum it is given, no
\* segment chunk_up_text returns is longer than the configured
\* split_character_max_length, for every jitter; the maximum handed to the
\* splitter never exceeds the configured maximum.
C31_AsStated ==
  ChunkReturned =>
    /\ Val(fn_out).max <= ConfiguredMax
    /\ \A len \in SegmentLengths : len <= ConfiguredMax

\* C31, amended: with a splitter that honours the maximum it is given, the
\* maximum handed to the splitter is the configured maximum when the jitter is
\* missing, zero or negative, and otherwise lies within the jitter of it, on
\* either side; no segment is longer than the configured maximum plus the
\* jitter.
C31_MaxWithinJitter ==
  ChunkReturned =>
    IF ChunkJitter > 0
      THEN /\ Val(fn_out).max >= ConfiguredMax - ChunkJitter
           /\ Val(fn_out).max <= ConfiguredMax + ChunkJitter
           /\ \A len \in SegmentLengths : len <= ConfiguredMax + ChunkJitter
      ELSE /\ Val(fn_out).max = ConfiguredMax
           /\ \A len \in SegmentLengths : len <= ConfiguredMax
C31_Witness ==
  /\ ChunkReturned /\ ChunkJitter > 0
  /\ Val(fn_out).max = ConfiguredMax + ChunkJitter
  /\ \E len \in SegmentLengths : len > ConfiguredMax


\* --------------------------------------------- C32: the base bundle is fixed

BaseSet == ~IsNoneBundle(base_history)
\* b is None or an object other than the base bundle
NotTheBase(b) == IsNoneBundle(b) \/ b.id # base_history.id
\* the cancelled return of lines 1020-1029, which drops the run's references
CancelledReturn == pc' = "returned" /\ result' = ReturnNone3("cancelled")

\* C32: once base_history is set (loaded at the start, or copied from the
\* output of the first segment) it stays the same object with the same
\* contents in every later step of the run, up to the cancelled return that
\* drops the reference; and the rolling conditioning, the conditioning in
\* kwargs and the conditioning a pipeline call works on are never the base
\* object itself but a copy.
C32_BaseFixed ==
  /\ [](BaseSet => /\ NotTheBase(history_prompt_for_next_segment)
                   /\ NotTheBase(kw.history_prompt)
                   /\ NotTheBase(bk.history_prompt)
                   /\ NotTheBase(bk.full_generation))
  /\ [][BaseSet => (base_history' = base_history
                      \/ (CancelledReturn /\ IsNoneBundle(base_history')))]_vars
C32_Witness ==
  /\ cfg.history_prompt = "None" /\ IntervalOf(cfg) = 1 /\ StabilityRuleOnly
  /\ Len(roll_log) = 3
  /\ base_history.src = "gen" /\ base_history.seg = 1
  /\ Content(history_prompt_for_next_segment) = Content(base_history)


\* ------------------------------------------- C33: one call per segment, in order

NeverCancelled == ~gradio_try_to_cancel
\* the pipeline calls made so far are those of segments 1, 2, ... in this
\* order, each with its four stages, and every call but the one in progress
\* has its output bundle in the accumulator at its position
CallsInOrder ==
  /\ \A j \in DOMAIN barki_calls : barki_calls[j].seg = j
  /\ \A k \in DOMAIN stage_calls : stage_calls[k].seg = ((k - 1) \div 4) + 1
  /\ Len(full_generation_segments) \in {Len(barki_calls) - 1, Len(barki_calls)}
  /\ \A j \in DOMAIN full_generation_segments :
       Content(full_generation_segments[j]) = GenContent(j)
\* a step that starts a pipeline call
CallStarts == Len(barki_calls') = Len(barki_calls) + 1

\* C33: in a run that is not a dry run and in which the flag is never set,
\* the pipeline calls are those of segments 1, 2, ... in order; a call starts
\* only when every earlier call has returned and its output has been
\* appended; and when the run has ended there have been exactly N calls and
\* the bundle accumulator has exactly N entries, the i-th the output bundle
\* of segment i.
C33_OneCallPerSegmentInOrder ==
  /\ []((NeverCancelled /\ dry_run # Some(TRUE)) => CallsInOrder)
  /\ []((NeverCancelled /\ dry_run # Some(TRUE) /\ Terminal) =>
          /\ Len(barki_calls) = cfg.nseg
          /\ Len(stage_calls) = 4 * cfg.nseg
          /\ Len(full_generation_segments) = cfg.nseg)
  /\ [][(NeverCancelled /\ CallStarts) =>
          /\ Len(full_generation_segments) = Len(barki_calls)
          /\ Len(stage_calls) = 4 * Len(barki_calls)]_vars
C33_Witness ==
  /\ NeverCancelled /\ dry_run # Some(TRUE) /\ result = ReturnArtifacts
  /\ cfg.nseg = MaxSegments
  /\ Len(barki_calls) = MaxSegments
  /\ Len(full_generation_segments) = MaxSegments


\* ------------------------------------------------------- C34: termination

\* a step of the run itself (every step but the caller setting the flag)
RunStep ==
  \/ Start \/ Segmenting \/ ResolveHistory \/ HoarderSetup \/ LoopHead
  \/ Check1007 \/ Bk505 \/ Semantic \/ Bk528 \/ Bk542 \/ Coarse \/ Bk584
  \/ Fine \/ Bk595 \/ Decode \/ Bk605 \/ AfterBarki \/ Check1097 \/ Finalize
\* how far a position of the run is from the end of the iteration it is in
PositionRank ==
  [ start |-> 20, segmenting |-> 19, resolve |-> 18, hoarder |-> 17,
    loop |-> 16, check1007 |-> 15, bk505 |-> 14, semantic |-> 13, bk528 |-> 12,
    bk542 |-> 11, coarse |-> 10, bk584 |-> 9, fine |-> 8, bk595 |-> 7,
    decode |-> 6, bk605 |-> 5, after_barki |-> 4, check1097 |-> 3,
    finalize |-> 2, returned |-> 0, raised |-> 0 ]
\* a bound on the steps the run can still take
StepsLeft == IF Terminal THEN 0 ELSE 20 * (cfg.nseg - i) + PositionRank[pc]
Outcome ==
  IF result = ReturnArtifacts THEN "Done"
  ELSE IF result.status = "returned" /\ result.value = "None3" THEN "CancelledOrFailed"
  ELSE IF result.status = "raised" THEN "Failed"
  ELSE "running"

\* C34: with stage calls that return, every run of generate_audio_long ends:
\* each of its steps lowers a bound on the steps left, the caller can set the
\* flag only once, and a run that has not ended can take a step.  A run that
\* has ended has returned its artifact lists, returned (None, None, None)
\* or raised, and stays ended.  There are never more than N pipeline
\* invocations, and once done_cancelling is set in a run no pipeline call
\* starts and no stage is invoked.
C34_RunTerminates ==
  /\ [](StepsLeft >= 0 /\ (Terminal <=> StepsLeft = 0))
  /\ [](~Terminal => ENABLED RunStep)
  /\ [](Terminal <=> Outcome # "running")
  /\ [](Len(barki_calls) <= cfg.nseg)
  /\ [][\/ StepsLeft' < StepsLeft
         \/ (~gradio_try_to_cancel /\ gradio_try_to_cancel' /\ UNCHANGED << pc, i >>)]_vars
  /\ [][~Terminal]_vars
  /\ [][done_cancelling => UNCHANGED << barki_calls, stage_calls >>]_vars
C34_Witness ==
  /\ Terminal /\ result = ReturnNone3("cancelled")
  /\ cfg.nseg = 3 /\ Len(barki_calls) = 2 /\ Len(stage_calls) = 6
  /\ done_cancelling


\* ----------------------------------- C35: the first output becomes the base

NoBaseSupplied == cfg.history_prompt = "None"
\* the first call and its stages receive no conditioning, and the base bundle
\* after every completed segment is the output of segment 1
FirstOutputIsBase ==
  /\ Len(barki_calls) >= 1 => IsNoneBundle(barki_calls[1].hp)
  /\ \A n \in DOMAIN stage_calls :
       stage_calls[n].seg = 1 => IsNoneBundle(stage_calls[n].hp)
  /\ \A j \in DOMAIN roll_log : Content(roll_log[j].base) = GenContent(1)
  /\ \A j \in DOMAIN barki_calls :
       j >= 2 => Content(barki_calls[j].base) = GenContent(1)
\* every call from the second on is conditioned on the output of segment 1
LaterCallsOnFirstOutput ==
  \A j \in DOMAIN barki_calls : j >= 2 => Content(barki_calls[j].hp) = GenContent(1)

\* C35, as claimed: with no base conditioning supplied, the first call
\* receives no conditioning and the output of segment 1 becomes the base
\* bundle for the rest of the run, so that with interval 1 every segment
\* i >= 2 is conditioned on the output of segment 1.
C35_AsStated ==
  NoBaseSupplied =>
    /\ FirstOutputIsBase
    /\ IntervalOf(cfg) = 1 => LaterCallsOnFirstOutput

\* C35, amended: with no base conditioning supplied, the first call receives
\* no conditioning and the output of segment 1 becomes the base bundle for
\* the rest of the run; with interval 1 every call from the second on is
\* conditioned on the output of segment 1 when seperate_prompts is clear,
\* and with seperate_prompts set and seperate_prompts_flipper clear it
\* receives no conditioning.
C35_FirstOutputBecomesBase ==
  NoBaseSupplied =>
    /\ FirstOutputIsBase
    /\ (IntervalOf(cfg) = 1 /\ StabilityRuleOnly) => LaterCallsOnFirstOutput
    /\ SeparateOnly => \A j \in DOMAIN barki_calls : IsNoneBundle(barki_calls[j].hp)
C35_Witness ==
  /\ NoBaseSupplied /\ IntervalOf(cfg) = 1 /\ StabilityRuleOnly
  /\ Len(barki_calls) = 3 /\ Len(roll_log) = 3
  /\ IsNoneBundle(barki_calls[1].hp)
  /\ Content(barki_calls[3].hp) = GenContent(1)
  /\ Content(base_history) = GenContent(1)


\* ------------------------------------------------- C36: the countdown counter

\* a step that completes a segment (lines 1052-1086 ran to the end)
SegmentCompletes == Len(roll_log') = Len(roll_log) + 1

\* the interval the run works with is not an integer (a negative one has
\* become the integer 0 at line 843)
FloatInterval ==
  /\ ~IsNone(cfg.stable_mode_interval)
  /\ Val(cfg.stable_mode_interval) >= 0
  /\ cfg.stable_mode_interval_half

\* C36 as stated: for every stability interval k >= 2 the counter is, from
\* line 849 on, an integer of 1..k.
C36_AsStated ==
  (IntervalOf(cfg) >= 2 /\ pc # "start") =>
    /\ stable_mode_interval_counter # None
    /\ ~FloatInterval
    /\ Val(stable_mode_interval_counter) \in 1..IntervalOf(cfg)

\* C36: for an integer stability interval k >= 2 the counter is, from line
\* 849 on, an integer of 1..k; it starts at k, changes only when a segment
\* completes, and then goes down by exactly 1, or back to k when the segment
\* finds it at 1. For a non-integer interval k >= 2 the counter starts at k
\* and goes down by exactly 1 with every completed segment, without ever
\* being reset: it is k minus the number of completed segments, below 1
\* included. For an interval that is 0 or 1 after lines 839-844, or that
\* matches no case, the counter stays None.
C36_CounterCountsDown ==
  /\ []((IntervalOf(cfg) >= 2 /\ ~FloatInterval /\ pc # "start") =>
          /\ stable_mode_interval_counter # None
          /\ Val(stable_mode_interval_counter) \in 1..IntervalOf(cfg))
  /\ []((IntervalOf(cfg) >= 2 /\ FloatInterval /\ pc # "start") =>
          stable_mode_interval_counter =
            Some(Number(IntervalOf(cfg) - Len(roll_log), TRUE)))
  /\ [](IntervalOf(cfg) < 2 => stable_mode_interval_counter = None)
  /\ [][(IntervalOf(cfg) >= 2 /\ pc = "start" /\ pc' # "start") =>
          stable_mode_interval_counter' =
            (IF FloatInterval THEN Some(Number(IntervalOf(cfg), TRUE))
                              ELSE Some(IntervalOf(cfg)))]_vars
  /\ [][(IntervalOf(cfg) >= 2 /\ pc # "start") =>
          IF SegmentCompletes
            THEN stable_mode_interval_counter' =
                   (IF FloatInterval
                      THEN Some(Number(Val(stable_mode_interval_counter).whole - 1, TRUE))
                    ELSE IF stable_mode_interval_counter = Some(1)
                      THEN Some(IntervalOf(cfg))
                      ELSE Some(Val(stable_mode_interval_counter) - 1))
            ELSE UNCHANGED stable_mode_interval_counter]_vars
C36_Witness ==
  /\ IntervalOf(cfg) = 2 /\ ~FloatInterval /\ Len(roll_log) = 3
  /\ roll_log[1].counter = Some(1) /\ roll_log[2].counter = Some(2)
  /\ roll_log[3].counter = Some(1)


\* ------------------------------------- C37: missing and negative intervals

IntegerInterval == ~cfg.stable_mode_interval_half
MissingInterval == cfg.stable_mode_interval = None
NegativeInterval == ~MissingInterval /\ Val(cfg.stable_mode_interval) < 0

\* C37: a missing stability interval is treated as 1 and a negative one as
\* 0; hence with an integer interval the run never returns from the
\* 'something has gone wrong' branch, and a run with a negative interval
\* carries on as a run with interval 0 does, each segment conditioned on the
\* output of the one before.
C37_IntegerIntervalNeverRejected ==
  (IntegerInterval /\ pc # "start") =>
    /\ MissingInterval => stable_mode_interval = Whole(1)
    /\ NegativeInterval => stable_mode_interval = Whole(0)
    /\ ~IntervalRejected
    /\ (NegativeInterval /\ StabilityRuleOnly) =>
         \A j \in DOMAIN roll_log : Content(roll_log[j].rolling) = GenContent(j)
    /\ (MissingInterval /\ StabilityRuleOnly) =>
         \A j \in DOMAIN roll_log : Content(roll_log[j].rolling) = ExpectedBase
C37_Witness ==
  /\ NegativeInterval /\ StabilityRuleOnly /\ IntegerInterval
  /\ result = ReturnArtifacts /\ Len(roll_log) = 3
  /\ Content(roll_log[3].rolling) = GenContent(3)


\* ------------------------------------------- C38: the flag is never cleared

\* the flag was already set when this call of generate_audio_long started
FlagSetBeforeCall == cancel_point = "earlier_call"

\* C38: no step of the module clears gradio_try_to_cancel: once it is set, by
\* the caller or by generate_audio_long itself on a base conditioning that
\* cannot be resolved, it stays set after the run has returned; and every
\* later call with dry_run off invokes no pipeline call and no model stage
\* and returns (None, None, None).
C38_FlagStaysSet ==
  /\ [][gradio_try_to_cancel => gradio_try_to_cancel']_vars
  /\ [](result = ReturnNone3("speaker_not_found") => gradio_try_to_cancel)
  /\ []((FlagSetBeforeCall /\ ~cfg.dry_run) =>
          /\ gradio_try_to_cancel
          /\ barki_calls = << >> /\ stage_calls = << >>
          /\ Terminal => (result.status = "returned" /\ result.value = "None3"))
C38_Witness ==
  /\ FlagSetBeforeCall /\ ~cfg.dry_run /\ cfg.nseg = 2 /\ NoBaseSupplied
  /\ result = ReturnNone3("cancelled")
  /\ done_cancelling /\ segmenter_calls = 1


\* ---------------------------------------------------- C39: done_cancelling

\* steps by which a function returns because it saw the flag
LongReturnsCancelled ==
  pc # "returned" /\ pc' = "returned" /\ result' = ReturnNone3("cancelled")
BarkiReturnsCancelled == bk.returned # "cancelled" /\ bk'.returned = "cancelled"
\* the returns of lines 881-883 and 1073-1075
OtherNoneReturn ==
  /\ pc # "returned" /\ pc' = "returned"
  /\ result' \in {ReturnNone3("text_splits_only"), ReturnNone3("bad_interval")}

\* C39: with a caller that only sets the flag, done_cancelling is set only
\* when gradio_try_to_cancel is; every return of generate_audio_long or
\* generate_audio_barki made because the flag was seen leaves done_cancelling
\* set; the splits-only return and the bad-interval return leave
\* done_cancelling as it was.
C39_DoneOnlyWhenFlag ==
  /\ [](done_cancelling => gradio_try_to_cancel)
  /\ [][(LongReturnsCancelled \/ BarkiReturnsCancelled) => done_cancelling']_vars
  /\ [][OtherNoneReturn => UNCHANGED done_cancelling]_vars
C39_Witness ==
  /\ result = ReturnNone3("text_splits_only")
  /\ gradio_try_to_cancel /\ ~done_cancelling


\* ------------------------------------------- C40: the previous_segment_type tag

\* the tag passed to the call of segment j agrees with where the conditioning
\* of the call was copied from: the base bundle, or the output of segment j - 1
TagMatchesSource(j) ==
  LET call == barki_calls[j]
      fromBase == ~IsNoneBundle(call.hp) /\ Content(call.hp) = Content(call.base)
      fromPrevious == ~IsNoneBundle(call.hp) /\ j >= 2
                        /\ Content(call.hp) = GenContent(j - 1)
  IN /\ ~IsNoneBundle(call.hp) =>
          call.previous_segment_type \in {"base_history", "full_generation"}
     /\ call.previous_segment_type = "base_history" => fromBase
     /\ call.previous_segment_type = "full_generation" => fromPrevious
     /\ (fromBase /\ ~fromPrevious) => call.previous_segment_type = "base_history"
     /\ (fromPrevious /\ ~fromBase) => call.previous_segment_type = "full_generation"
TaggedBase(j) == barki_calls[j].previous_segment_type = "base_history"
\* the stages of the call of segment j that have been invoked
StagesOfCall(j) == {n \in DOMAIN stage_calls : stage_calls[n].seg = j}
\* the calls that were handed a conditioning
ConditionedCalls == {j \in DOMAIN barki_calls : ~IsNoneBundle(barki_calls[j].hp)}

\* C40, as claimed: under the stability rule the tag of a call is
\* 'base_history' when its conditioning was copied from the base bundle and
\* 'full_generation' when it was copied from the output of the segment
\* before; with semantic_history_only the coarse and the fine stage receive no
\* conditioning exactly on the calls tagged 'base_history', and the semantic
\* stage receives the conditioning of the call.
C40_AsStated ==
  StabilityRuleOnly =>
    /\ \A j \in DOMAIN barki_calls : TagMatchesSource(j)
    /\ cfg.semantic_history_only =>
         \A j \in ConditionedCalls : \A n \in StagesOfCall(j) :
           /\ stage_calls[n].stage = "semantic" =>
                stage_calls[n].hp = barki_calls[j].hp
           /\ stage_calls[n].stage \in {"coarse", "fine"} =>
                (IsNoneBundle(stage_calls[n].hp) <=> TaggedBase(j))

\* C40, amended: the tag agrees with the source of the conditioning as
\* claimed; with semantic_history_only the semantic stage receives the
\* conditioning of the call, and the coarse and the fine stage receive none
\* exactly on the calls that are tagged 'base_history' or fall under
\* absolute_semantic_history_only or absolute_semantic_history_only_every_x.
C40_TagAndSemanticOnly ==
  StabilityRuleOnly =>
    /\ \A j \in DOMAIN barki_calls : TagMatchesSource(j)
    /\ cfg.semantic_history_only =>
         \A j \in ConditionedCalls : \A n \in StagesOfCall(j) :
           /\ stage_calls[n].stage = "semantic" =>
                stage_calls[n].hp = barki_calls[j].hp
           /\ stage_calls[n].stage \in {"coarse", "fine"} =>
                /\ IsNoneBundle(stage_calls[n].hp) <=>
                     (TaggedBase(j) \/ cfg.absolute_semantic_history_only
                        \/ EveryXFires(j))
                /\ ~IsNoneBundle(stage_calls[n].hp) =>
                     stage_calls[n].hp = barki_calls[j].hp
C40_Witness ==
  /\ StabilityRuleOnly /\ cfg.semantic_history_only /\ BaseLoaded
  /\ ~cfg.absolute_semantic_history_only /\ EveryX = None
  /\ IntervalOf(cfg) = 2 /\ Len(stage_calls) = 12
  /\ TaggedBase(1) /\ ~TaggedBase(2) /\ TaggedBase(3)
  /\ IsNoneBundle(stage_calls[2].hp) /\ ~IsNoneBundle(stage_calls[1].hp)
  /\ ~IsNoneBundle(stage_calls[6].hp) /\ IsNoneBundle(stage_calls[10].hp)

====
